---- MODULE Spec2Model ----
(***************************************************************************)
(* A model of src/aws/cs-aws-cost-estimation.py: the CrowdStrike CSPM cost *)
(* estimator.  The estimators (_get_account_session,                       *)
(* estimate_cloudtrail_events, estimate_data_transfer, ...) are operators  *)
(* over an "oracle": a record saying what every external call (STS,        *)
(* CloudWatch, EC2, IAM, S3) answers if it is made.  Each operator returns *)
(* the value the code returns together with the trace of the external      *)
(* calls it made, in order.  The orchestration (__init__, run, the worker  *)
(* tasks of the thread pool) is a state machine over these operators.      *)
(*                                                                         *)
(* Python floats are modelled as exact rationals <<n, d>> (d > 0, lowest   *)
(* terms); round(x, 2) is round-half-even on the exact value.              *)
(***************************************************************************)
EXTENDS Integers, Sequences, FiniteSets, TLC

VARIABLES
  mainpc,                 \* where the main thread is (__init__, then run)
  regions,                \* self.regions
  include_all_regions,    \* self.include_all_regions
  include_dspm,           \* self.include_dspm
  include_snapshot,       \* self.include_snapshot
  all_available_regions,  \* self.all_available_regions
  accounts,               \* self.accounts
  results,                \* self.results
  print_lock,             \* the task holding print_lock, or 0
  tasks,                  \* the pool's tasks, one per entry of self.accounts
  report,                 \* what run() has written: the CSV and the summaries
  fpc, fin, fout          \* one call of one estimator: position, input, result

vars == <<mainpc, regions, include_all_regions, include_dspm, include_snapshot,
          all_available_regions, accounts, results, print_lock, tasks,
          report, fpc, fin, fout>>

mainvars == <<mainpc, regions, include_all_regions, include_dspm,
              include_snapshot, all_available_regions, accounts, results,
              print_lock, tasks, report>>

(***************************************************************************)
(* Rational arithmetic (the float expressions of the source).              *)
(***************************************************************************)
Abs(n) == IF n < 0 THEN -n ELSE n

RECURSIVE GCD(_, _)
GCD(a, b) == IF b = 0 THEN a ELSE GCD(b, a % b)

RNorm(n, d) ==
  LET g == GCD(Abs(n), d)
  IN  IF n = 0 THEN <<0, 1>> ELSE <<n \div g, d \div g>>

RInt(n) == <<n, 1>>

RAdd(x, y) ==
  LET g == GCD(x[2], y[2])
      l == (x[2] \div g) * y[2]
  IN  RNorm(x[1] * (l \div x[2]) + y[1] * (l \div y[2]), l)

RMul(x, y) ==
  LET g1 == GCD(Abs(x[1]), y[2])
      g2 == GCD(Abs(y[1]), x[2])
      a  == IF x[1] = 0 THEN 0 ELSE x[1] \div g1
      b  == IF x[1] = 0 THEN 1 ELSE y[2] \div g1
      c  == IF y[1] = 0 THEN 0 ELSE y[1] \div g2
      d  == IF y[1] = 0 THEN 1 ELSE x[2] \div g2
  IN  RNorm(a * c, b * d)

\* x / y for y > 0
RDiv(x, y) == RMul(x, <<y[2], y[1]>>)

RLess(x, y) ==
  LET g == GCD(x[2], y[2])
  IN  x[1] * (y[2] \div g) < y[1] * (x[2] \div g)

RMax(x, y) == IF RLess(x, y) THEN y ELSE x

\* int(x) for x >= 0: truncation
RTrunc(x) == x[1] \div x[2]

\* round(x, 2) for x >= 0: the nearest multiple of 1/100, ties to even
Round2(x) ==
  LET q  == x[1] \div x[2]
      r0 == x[1] % x[2]
      t  == (r0 * 10) \div x[2]
      r1 == (r0 * 10) % x[2]
      h  == (r1 * 10) \div x[2]
      r2 == (r1 * 10) % x[2]
      c  == q * 100 + t * 10 + h
      up == \/ 2 * r2 > x[2]
            \/ (2 * r2 = x[2] /\ c % 2 = 1)
  IN  RNorm(IF up THEN c + 1 ELSE c, 100)

RECURSIVE SumSeq(_)
SumSeq(s) == IF s = <<>> THEN 0 ELSE Head(s) + SumSeq(Tail(s))

(***************************************************************************)
(* Credential Broker: _get_account_session.                                *)
(***************************************************************************)
\* the identity of the root access scope (the account of base_session)
RootAccount == "111"

PrimaryRole == "OrganizationAccountAccessRole"

AlternativeRoles == <<"AWSControlTowerExecution", "OrganizationAccountAccess">>

Roles == {PrimaryRole} \cup {AlternativeRoles[i] : i \in 1..Len(AlternativeRoles)}

\* one external call in a trace: the operation, its argument, its outcome
Call(op, arg, out) == [op |-> op, arg |-> arg, out |-> out]

BaseSession == [kind |-> "base", role |-> ""]

NoSession == [kind |-> "none", role |-> ""]

AssumedSession(role) == [kind |-> "assumed", role |-> role]

AssumeCall(role, o) ==
  Call("assume_role", role, IF role \in o.assume THEN "ok" ELSE "error")

\* faulty variant: the loop does not stop at the first role that can be assumed
RECURSIVE TryAlternativeRoles_NoStop(_, _, _)
TryAlternativeRoles_NoStop(i, o, calls) ==
  IF i > Len(AlternativeRoles)
  THEN [raised |-> FALSE,
        session |-> IF \E k \in 1..Len(AlternativeRoles) :
                         AlternativeRoles[k] \in o.assume
                    THEN AssumedSession(AlternativeRoles[
                           CHOOSE k \in 1..Len(AlternativeRoles) :
                             /\ AlternativeRoles[k] \in o.assume
                             /\ \A j \in 1..(k - 1) :
                                  AlternativeRoles[j] \notin o.assume])
                    ELSE NoSession,
        calls |-> calls]
  ELSE TryAlternativeRoles_NoStop(i + 1, o,
         Append(calls, AssumeCall(AlternativeRoles[i], o)))

\* the loop over the alternative role names (lines 201-219)
RECURSIVE TryAlternativeRoles(_, _, _)
TryAlternativeRoles(i, o, calls) ==
  IF i > Len(AlternativeRoles)
  THEN [raised |-> FALSE, session |-> NoSession, calls |-> calls]
  ELSE LET role == AlternativeRoles[i]
           c    == Append(calls, AssumeCall(role, o))
       IN  IF role \in o.assume
           THEN [raised |-> FALSE, session |-> AssumedSession(role), calls |-> c]
           ELSE TryAlternativeRoles(i + 1, o, c)

\* faulty variant: a role is assumed for the caller's own account too
get_account_session_AlwaysAssumes(account_id, o) ==
  LET c0 == <<Call("get_caller_identity", "",
                   IF o.ident = "raise" THEN "error" ELSE "ok")>>
  IN  IF o.ident = "raise"
      THEN [raised |-> TRUE, session |-> NoSession, calls |-> c0]
      ELSE LET c1 == Append(c0, AssumeCall(PrimaryRole, o))
           IN  IF PrimaryRole \in o.assume
               THEN [raised |-> FALSE, session |-> AssumedSession(PrimaryRole),
                     calls |-> c1]
               ELSE TryAlternativeRoles(1, o, c1)

\* faulty variant: a failed primary role is tried a second time
get_account_session_RetriesPrimary(account_id, o) ==
  LET c0 == <<Call("get_caller_identity", "",
                   IF o.ident = "raise" THEN "error" ELSE "ok")>>
  IN  IF o.ident = "raise"
      THEN [raised |-> TRUE, session |-> NoSession, calls |-> c0]
      ELSE IF account_id = o.ident
      THEN [raised |-> FALSE, session |-> BaseSession, calls |-> c0]
      ELSE LET c1 == Append(c0, AssumeCall(PrimaryRole, o))
           IN  IF PrimaryRole \in o.assume
               THEN [raised |-> FALSE, session |-> AssumedSession(PrimaryRole),
                     calls |-> c1]
               ELSE TryAlternativeRoles(1, o,
                                        Append(c1, AssumeCall(PrimaryRole, o)))

\* o.ident: the account get_caller_identity answers, or "raise";
\* o.assume: the role names whose assume_role call succeeds
get_account_session(account_id, o) ==
  LET c0 == <<Call("get_caller_identity", "",
                   IF o.ident = "raise" THEN "error" ELSE "ok")>>
  IN  IF o.ident = "raise"
      THEN [raised |-> TRUE, session |-> NoSession, calls |-> c0]
      ELSE IF account_id = o.ident
      THEN [raised |-> FALSE, session |-> BaseSession, calls |-> c0]
      ELSE LET c1 == Append(c0, AssumeCall(PrimaryRole, o))
           IN  IF PrimaryRole \in o.assume
               THEN [raised |-> FALSE, session |-> AssumedSession(PrimaryRole),
                     calls |-> c1]
               ELSE TryAlternativeRoles(1, o, c1)

(***************************************************************************)
(* Usage Waterfall: estimate_cloudtrail_events.                            *)
(***************************************************************************)
DefaultEvents == 1000000

\* a metrics response: err (the call raises) or the list of datapoint sums
MetricOut(r) == IF r.err THEN "error" ELSE IF r.points = <<>> THEN "empty" ELSE "data"

MetricCall(name, r) == Call("get_metric_statistics", name, MetricOut(r))

CountCall(op, r) == Call(op, "", IF r.err THEN "error" ELSE "ok")

\* sum / len * 30 over the datapoints (lines 302-305, 327-330, 398-400)
MonthlyFromDaily(points) ==
  LET total == SumSeq(points)
      days  == IF Len(points) > 0 THEN Len(points) ELSE 1
      daily_avg == RDiv(RInt(total), RInt(days))
  IN  RMul(daily_avg, RInt(30))

EventsResult(raised, value, tier, calls, sessions) ==
  [raised |-> raised, value |-> value, tier |-> tier, calls |-> calls,
   sessions |-> sessions]

\* Tier 3 (lines 337-352): instances + users + roles as an activity proxy
EventsTier3(o, calls, sessions) ==
  LET c1 == Append(calls, CountCall("describe_instances", o.ec2))
      c2 == Append(c1, CountCall("list_users", o.users))
      c3 == Append(c2, CountCall("list_roles", o.roles))
      instance_count == SumSeq(o.ec2.reservations)
      activity_factor == (instance_count + o.users.n + o.roles.n) * 5000
      default(c) == EventsResult(FALSE, RInt(DefaultEvents), 4, c, sessions)
  IN  IF o.ec2.err THEN default(c1)
      ELSE IF o.users.err THEN default(c2)
      ELSE IF o.roles.err THEN default(c3)
      ELSE EventsResult(FALSE, RMax(RInt(activity_factor), RInt(100000)), 3,
                        c3, sessions)

\* Tier 2 (lines 309-334): the API call count, corrected by 0.15
EventsTier2(o, calls, sessions) ==
  LET c == Append(calls, MetricCall("CallCount", o.t2))
  IN  IF ~o.t2.err /\ o.t2.points # <<>>
      THEN EventsResult(FALSE, RMul(MonthlyFromDaily(o.t2.points), <<15, 100>>),
                        2, c, sessions)
      ELSE EventsTier3(o, c, sessions)

\* faulty variant: Tier 1's monthly figure is handed on to Tier 2 when Tier 2 has data
EventsTier1_PrefersTier2(o, calls, sessions) ==
  LET c == Append(calls, MetricCall("Events", o.t1))
  IN  IF o.t1.err
      THEN EventsResult(FALSE, RInt(DefaultEvents), 4, c, sessions)
      ELSE IF o.t1.points # <<>> /\ (o.t2.err \/ o.t2.points = <<>>)
      THEN EventsResult(FALSE, MonthlyFromDaily(o.t1.points), 1, c, sessions)
      ELSE EventsTier2(o, c, sessions)

\* Tier 1 (lines 285-306) inside the outer try (lines 357-360)
EventsTier1(o, calls, sessions) ==
  LET c == Append(calls, MetricCall("Events", o.t1))
  IN  IF o.t1.err
      THEN EventsResult(FALSE, RInt(DefaultEvents), 4, c, sessions)
      ELSE IF o.t1.points # <<>>
      THEN EventsResult(FALSE, MonthlyFromDaily(o.t1.points), 1, c, sessions)
      ELSE EventsTier2(o, c, sessions)

\* faulty variant: the waterfall is entered although no scope was obtained
estimate_cloudtrail_events_NoScopeCheck(account_id, region, o) ==
  LET s == get_account_session(account_id, o.sess)
      sessions == <<s.session.kind>>
  IN  IF s.raised
      THEN EventsResult(TRUE, RInt(0), 0, s.calls, <<"raised">>)
      ELSE EventsTier1(o, s.calls, sessions)

\* lines 281-283, then the tiers
estimate_cloudtrail_events(account_id, region, o) ==
  LET s == get_account_session(account_id, o.sess)
      sessions == <<s.session.kind>>
  IN  IF s.raised
      THEN EventsResult(TRUE, RInt(0), 0, s.calls, <<"raised">>)
      ELSE IF s.session = NoSession
      THEN EventsResult(FALSE, RInt(DefaultEvents), 4, s.calls, sessions)
      ELSE EventsTier1(o, s.calls, sessions)

(***************************************************************************)
(* Usage Waterfall: estimate_data_transfer.                                *)
(***************************************************************************)
DefaultEgressGB == 5

BytesPerGB == 1024 * 1024 * 1024

EgressResult(raised, value, tier, calls, sessions, events) ==
  [raised |-> raised, value |-> value, tier |-> tier, calls |-> calls,
   sessions |-> sessions, events |-> events]

NoEvents == EventsResult(FALSE, RInt(0), 0, <<>>, <<>>)

\* faulty variant: a raising Tier 1 query falls through to the event-count estimate
estimate_data_transfer_ErrorFallsThrough(account_id, region, o) ==
  LET s  == get_account_session(account_id, o.sess)
      c1 == Append(s.calls, MetricCall("BytesDelivered", o.t1))
      ev == estimate_cloudtrail_events(account_id, region, o.events)
      avg_event_size_kb == <<3, 2>>
      default(c, ss, e) == EgressResult(FALSE, RInt(DefaultEgressGB), 3, c, ss, e)
  IN  IF s.raised
      THEN EgressResult(TRUE, RInt(0), 0, s.calls, <<"raised">>, NoEvents)
      ELSE IF s.session = NoSession
      THEN default(s.calls, <<"none">>, NoEvents)
      ELSE IF ~o.t1.err /\ o.t1.points # <<>>
      THEN EgressResult(FALSE,
                        RDiv(MonthlyFromDaily(o.t1.points), RInt(BytesPerGB)),
                        1, c1, <<s.session.kind>>, NoEvents)
      ELSE IF ev.raised
      THEN default(c1 \o ev.calls, <<s.session.kind>> \o ev.sessions, ev)
      ELSE EgressResult(FALSE,
                        RDiv(RMul(RMul(ev.value, avg_event_size_kb), RInt(1024)),
                             RInt(BytesPerGB)),
                        2, c1 \o ev.calls, <<s.session.kind>> \o ev.sessions, ev)

\* faulty variant: an event is taken to weigh 1 KB
estimate_data_transfer_OneKB(account_id, region, o) ==
  LET s  == get_account_session(account_id, o.sess)
      c1 == Append(s.calls, MetricCall("BytesDelivered", o.t1))
      ev == estimate_cloudtrail_events(account_id, region, o.events)
      avg_event_size_kb == <<1, 1>>
      default(c, ss, e) == EgressResult(FALSE, RInt(DefaultEgressGB), 3, c, ss, e)
  IN  IF s.raised
      THEN EgressResult(TRUE, RInt(0), 0, s.calls, <<"raised">>, NoEvents)
      ELSE IF s.session = NoSession
      THEN default(s.calls, <<"none">>, NoEvents)
      ELSE IF o.t1.err
      THEN default(c1, <<s.session.kind>>, NoEvents)
      ELSE IF o.t1.points # <<>>
      THEN EgressResult(FALSE,
                        RDiv(MonthlyFromDaily(o.t1.points), RInt(BytesPerGB)),
                        1, c1, <<s.session.kind>>, NoEvents)
      ELSE IF ev.raised
      THEN default(c1 \o ev.calls, <<s.session.kind>> \o ev.sessions, ev)
      ELSE EgressResult(FALSE,
                        RDiv(RMul(RMul(ev.value, avg_event_size_kb), RInt(1024)),
                             RInt(BytesPerGB)),
                        2, c1 \o ev.calls, <<s.session.kind>> \o ev.sessions, ev)

estimate_data_transfer(account_id, region, o) ==
  LET s  == get_account_session(account_id, o.sess)
      c1 == Append(s.calls, MetricCall("BytesDelivered", o.t1))
      ev == estimate_cloudtrail_events(account_id, region, o.events)
      avg_event_size_kb == <<3, 2>>
      default(c, ss, e) == EgressResult(FALSE, RInt(DefaultEgressGB), 3, c, ss, e)
  IN  IF s.raised
      THEN EgressResult(TRUE, RInt(0), 0, s.calls, <<"raised">>, NoEvents)
      ELSE IF s.session = NoSession
      THEN default(s.calls, <<"none">>, NoEvents)
      ELSE IF o.t1.err
      THEN default(c1, <<s.session.kind>>, NoEvents)
      ELSE IF o.t1.points # <<>>
      THEN EgressResult(FALSE,
                        RDiv(MonthlyFromDaily(o.t1.points), RInt(BytesPerGB)),
                        1, c1, <<s.session.kind>>, NoEvents)
      ELSE IF ev.raised
      THEN default(c1 \o ev.calls, <<s.session.kind>> \o ev.sessions, ev)
      ELSE EgressResult(FALSE,
                        RDiv(RMul(RMul(ev.value, avg_event_size_kb), RInt(1024)),
                             RInt(BytesPerGB)),
                        2, c1 \o ev.calls, <<s.session.kind>> \o ev.sessions, ev)

(***************************************************************************)
(* Usage Waterfall: estimate_s3_buckets.                                   *)
(***************************************************************************)
S3Result(raised, count, total, avg, calls, sessions) ==
  [raised |-> raised, count |-> count, total_size_gb |-> total,
   avg_size_gb |-> avg, calls |-> calls, sessions |-> sessions]

\* lines 440-443 and 517-520: 10 buckets of 50 GB
DefaultS3(calls, sessions) ==
  S3Result(FALSE, 10, RInt(500), RInt(50), calls, sessions)

\* faulty variant: a bucket whose location cannot be read is kept
RECURSIVE RegionalBuckets_KeepsUnreadable(_, _, _)
RegionalBuckets_KeepsUnreadable(buckets, region, acc) ==
  IF buckets = <<>> THEN acc
  ELSE LET b == Head(buckets)
           location == IF b.loc.value = "None" THEN "us-east-1" ELSE b.loc.value
           call == Call("get_bucket_location", b.name,
                        IF b.loc.err THEN "error" ELSE "ok")
           kept == IF b.loc.err \/ location = region
                   THEN Append(acc.kept, b) ELSE acc.kept
       IN  RegionalBuckets_KeepsUnreadable(Tail(buckets), region,
                           [kept |-> kept, calls |-> Append(acc.calls, call)])

\* lines 455-465: keep the buckets located in `region`; a bucket whose
\* location lookup raises is skipped; no LocationConstraint means us-east-1
RECURSIVE RegionalBuckets(_, _, _)
RegionalBuckets(buckets, region, acc) ==
  IF buckets = <<>> THEN acc
  ELSE LET b == Head(buckets)
           location == IF b.loc.value = "None" THEN "us-east-1" ELSE b.loc.value
           call == Call("get_bucket_location", b.name,
                        IF b.loc.err THEN "error" ELSE "ok")
           kept == IF ~b.loc.err /\ location = region
                   THEN Append(acc.kept, b) ELSE acc.kept
       IN  RegionalBuckets(Tail(buckets), region,
                           [kept |-> kept, calls |-> Append(acc.calls, call)])

\* lines 473-496: the size of every regional bucket that has a size metric
RECURSIVE SizeBuckets(_, _)
SizeBuckets(buckets, acc) ==
  IF buckets = <<>> THEN acc
  ELSE LET b == Head(buckets)
           call == MetricCall("BucketSizeBytes", b.size)
           sized == ~b.size.err /\ b.size.points # <<>>
           size_gb == RDiv(RInt(b.size.points[1]), RInt(BytesPerGB))
       IN  SizeBuckets(Tail(buckets),
                       [total |-> IF sized THEN RAdd(acc.total, size_gb)
                                           ELSE acc.total,
                        sized |-> IF sized THEN acc.sized + 1 ELSE acc.sized,
                        calls |-> Append(acc.calls, call)])

estimate_s3_buckets(account_id, region, o, with_dspm) ==
  LET s  == get_account_session(account_id, o.sess)
      ss == <<s.session.kind>>
      c1 == Append(s.calls, CountCall("list_buckets", o.list))
      regional == RegionalBuckets(o.list.buckets, region,
                                  [kept |-> <<>>, calls |-> c1])
      bucket_count == Len(regional.kept)
      sizes == SizeBuckets(regional.kept,
                           [total |-> RInt(0), sized |-> 0,
                            calls |-> regional.calls])
      avg_size_gb == IF sizes.sized > 0
                     THEN RDiv(sizes.total, RInt(sizes.sized))
                     ELSE RInt(50)
      total_size_gb == RMul(avg_size_gb, RInt(bucket_count))
  IN  IF ~with_dspm
      THEN S3Result(FALSE, 0, RInt(0), RInt(0), <<>>, <<>>)
      ELSE IF s.raised
      THEN S3Result(TRUE, 0, RInt(0), RInt(0), s.calls, <<"raised">>)
      ELSE IF s.session = NoSession THEN DefaultS3(s.calls, ss)
      ELSE IF o.list.err THEN DefaultS3(c1, ss)
      ELSE S3Result(FALSE, bucket_count, Round2(total_size_gb),
                    Round2(avg_size_gb), sizes.calls, ss)

(***************************************************************************)
(* Usage Waterfall: estimate_ec2_instances.                                *)
(***************************************************************************)
UpperCase == "ABCDEFGHIJKLMNOPQRSTUVWXYZ"

LowerCase == "abcdefghijklmnopqrstuvwxyz"

LowerChar(c) ==
  IF \E i \in 1..Len(UpperCase) : SubSeq(UpperCase, i, i) = c
  THEN LET i == CHOOSE i \in 1..Len(UpperCase) : SubSeq(UpperCase, i, i) = c
       IN  SubSeq(LowerCase, i, i)
  ELSE c

\* str.lower()
RECURSIVE Lower(_)
Lower(s) ==
  IF Len(s) = 0 THEN ""
  ELSE LowerChar(SubSeq(s, 1, 1)) \o Lower(SubSeq(s, 2, Len(s)))

\* `sub in s`
Contains(s, sub) ==
  \E i \in 1..(Len(s) - Len(sub) + 1) : SubSeq(s, i, i + Len(sub) - 1) = sub

LinuxKeywords == {"linux", "ubuntu", "centos", "rhel", "amazon", "debian"}

EC2Result(raised, total, linux, windows, other, calls, sessions) ==
  [raised |-> raised, total |-> total, linux |-> linux, windows |-> windows,
   other |-> other, calls |-> calls, sessions |-> sessions]

\* lines 547-551 and 611-614: 20 instances, 14 Linux, 5 Windows, 1 other
DefaultEC2(calls, sessions) == EC2Result(FALSE, 20, 14, 5, 1, calls, sessions)

\* faulty variant: an instance whose image lookup fails is not counted as Linux
ClassifyInstance_FailureIsOther(instance) ==
  LET img == instance.image
      found == img.found
      description == IF found THEN Lower(img.description) ELSE ""
      platform == IF found THEN Lower(img.platform) ELSE instance.platform
      call == Call("describe_images", instance.image_id,
                   IF img.err THEN "error" ELSE "ok")
  IN  IF instance.platform # "" /\ Contains(Lower(instance.platform), "windows")
      THEN [os |-> "windows", calls |-> <<>>]
      ELSE IF img.err THEN [os |-> "other", calls |-> <<call>>]
      ELSE IF Contains(description, "windows") \/ platform = "windows"
      THEN [os |-> "windows", calls |-> <<call>>]
      ELSE IF \E x \in LinuxKeywords : Contains(description, x)
      THEN [os |-> "linux", calls |-> <<call>>]
      ELSE [os |-> "linux", calls |-> <<call>>]

\* lines 572-596: "windows" or "linux" for one instance, with the
\* describe_images call when the platform tag does not say Windows
ClassifyInstance(instance) ==
  LET img == instance.image
      found == img.found
      description == IF found THEN Lower(img.description) ELSE ""
      platform == IF found THEN Lower(img.platform) ELSE instance.platform
      call == Call("describe_images", instance.image_id,
                   IF img.err THEN "error" ELSE "ok")
  IN  IF instance.platform # "" /\ Contains(Lower(instance.platform), "windows")
      THEN [os |-> "windows", calls |-> <<>>]
      ELSE IF img.err THEN [os |-> "linux", calls |-> <<call>>]
      ELSE IF Contains(description, "windows") \/ platform = "windows"
      THEN [os |-> "windows", calls |-> <<call>>]
      ELSE IF \E x \in LinuxKeywords : Contains(description, x)
      THEN [os |-> "linux", calls |-> <<call>>]
      ELSE [os |-> "linux", calls |-> <<call>>]

\* faulty variant: an instance counted as Windows is counted as Linux too
RECURSIVE CountInstances_WindowsTwice(_, _)
CountInstances_WindowsTwice(instances, acc) ==
  IF instances = <<>> THEN acc
  ELSE LET c == ClassifyInstance(Head(instances))
       IN  CountInstances_WindowsTwice(Tail(instances),
             [total |-> acc.total + 1,
              linux |-> acc.linux + 1,
              windows |-> IF c.os = "windows" THEN acc.windows + 1
                                                ELSE acc.windows,
              calls |-> acc.calls \o c.calls])

\* lines 564-596: the counting loop over the enumerated instances
RECURSIVE CountInstances(_, _)
CountInstances(instances, acc) ==
  IF instances = <<>> THEN acc
  ELSE LET c == ClassifyInstance(Head(instances))
       IN  CountInstances(Tail(instances),
             [total |-> acc.total + 1,
              linux |-> IF c.os = "linux" THEN acc.linux + 1 ELSE acc.linux,
              windows |-> IF c.os = "windows" THEN acc.windows + 1
                                                ELSE acc.windows,
              calls |-> acc.calls \o c.calls])

estimate_ec2_instances(account_id, region, o, with_snapshot) ==
  LET s  == get_account_session(account_id, o.sess)
      ss == <<s.session.kind>>
      c1 == Append(s.calls, CountCall("describe_instances", o.list))
      n  == CountInstances(o.list.instances,
                           [total |-> 0, linux |-> 0, windows |-> 0,
                            calls |-> c1])
      other_count == n.total - n.linux - n.windows
  IN  IF ~with_snapshot
      THEN EC2Result(FALSE, 0, 0, 0, 0, <<>>, <<>>)
      ELSE IF s.raised
      THEN EC2Result(TRUE, 0, 0, 0, 0, s.calls, <<"raised">>)
      ELSE IF s.session = NoSession THEN DefaultEC2(s.calls, ss)
      ELSE IF o.list.err THEN DefaultEC2(c1, ss)
      ELSE EC2Result(FALSE, n.total, n.linux, n.windows, other_count,
                     n.calls, ss)

(***************************************************************************)
(* Cost Model: the body of the region loop of calculate_costs.             *)
(***************************************************************************)
StartsWith(s, prefix) ==
  Len(s) >= Len(prefix) /\ SubSeq(s, 1, Len(prefix)) = prefix

\* faulty variant: the Middle East regions are charged the base rate
EgressRate_NoMiddleEast(region) ==
  IF StartsWith(region, "ap-") THEN <<11, 100>>
  ELSE IF StartsWith(region, "sa-") THEN <<12, 100>>
  ELSE <<9, 100>>

\* lines 671-676
EgressRate(region) ==
  IF StartsWith(region, "ap-") \/ StartsWith(region, "me-") THEN <<11, 100>>
  ELSE IF StartsWith(region, "sa-") THEN <<12, 100>>
  ELSE <<9, 100>>

\* faulty variant: the scan is charged for an account without buckets
DspmCost_NoCountCheck(s3_data, with_dspm) ==
  LET nat_hourly_rate == <<45, 1000>>
      nat_data_rate == <<45, 1000>>
      dspm_instance_hours == RInt(24)
      dspm_instance_rate == <<34, 100>>
      dspm_monthly_scans == RInt(1)
      dspm_instance_cost ==
        RMul(RMul(dspm_instance_hours, dspm_instance_rate), dspm_monthly_scans)
      dspm_data_cost ==
        RMul(RMul(s3_data.total_size_gb, nat_data_rate), dspm_monthly_scans)
      dspm_nat_cost ==
        RMul(RMul(nat_hourly_rate, RInt(24)), dspm_monthly_scans)
  IN  IF with_dspm
      THEN RAdd(RAdd(dspm_instance_cost, dspm_data_cost), dspm_nat_cost)
      ELSE RInt(0)

\* lines 686-703
DspmCost(s3_data, with_dspm) ==
  LET nat_hourly_rate == <<45, 1000>>
      nat_data_rate == <<45, 1000>>
      dspm_instance_hours == RInt(24)
      dspm_instance_rate == <<34, 100>>
      dspm_monthly_scans == RInt(1)
      dspm_instance_cost ==
        RMul(RMul(dspm_instance_hours, dspm_instance_rate), dspm_monthly_scans)
      dspm_data_cost ==
        RMul(RMul(s3_data.total_size_gb, nat_data_rate), dspm_monthly_scans)
      dspm_nat_cost ==
        RMul(RMul(nat_hourly_rate, RInt(24)), dspm_monthly_scans)
  IN  IF with_dspm /\ s3_data.count > 0
      THEN RAdd(RAdd(dspm_instance_cost, dspm_data_cost), dspm_nat_cost)
      ELSE RInt(0)

\* lines 705-721
SnapshotCost(ec2_data, with_snapshot) ==
  LET batch_instance_hours == <<1, 2>>
      batch_instance_rate == <<85, 1000>>
      monthly_snapshot_scans == RInt(4)
      avg_instance_storage_gb == RInt(100)
      ebs_snapshot_rate == <<5, 100>>
      linux == RInt(ec2_data.linux)
      snapshot_compute_cost ==
        RMul(RMul(RMul(linux, batch_instance_hours), batch_instance_rate),
             monthly_snapshot_scans)
      snapshot_storage_cost ==
        RMul(RMul(RMul(linux, avg_instance_storage_gb), ebs_snapshot_rate),
             <<1, 30>>)
  IN  IF with_snapshot /\ ec2_data.linux > 0
      THEN RAdd(snapshot_compute_cost, snapshot_storage_cost)
      ELSE RInt(0)

\* faulty variant: the Lambda overhead is left out of the total
BuildRow_DropsLambda(account, region, monthly_events, monthly_egress_gb, s3_data, ec2_data, with_dspm, with_snapshot) ==
  LET eventbridge_cost == RMul(RDiv(monthly_events, RInt(1000000)), RInt(1))
      data_egress_cost == RMul(monthly_egress_gb, EgressRate(region))
      lambda_cost == <<1, 10>>
      cloudtrail_cost == RInt(0)
      dspm_cost == DspmCost(s3_data, with_dspm)
      snapshot_cost == SnapshotCost(ec2_data, with_snapshot)
      total_cost ==
        RAdd(RAdd(RAdd(RAdd(eventbridge_cost, data_egress_cost),
                       cloudtrail_cost), dspm_cost), snapshot_cost)
  IN  [account_id |-> account.id,
       account_name |-> account.name,
       region |-> region,
       monthly_events |-> RTrunc(monthly_events),
       monthly_egress_gb |-> Round2(monthly_egress_gb),
       s3_bucket_count |-> s3_data.count,
       s3_storage_gb |-> Round2(s3_data.total_size_gb),
       ec2_instance_count |-> ec2_data.total,
       linux_instance_count |-> ec2_data.linux,
       eventbridge_cost |-> Round2(eventbridge_cost),
       data_egress_cost |-> Round2(data_egress_cost),
       lambda_cost |-> Round2(lambda_cost),
       cloudtrail_cost |-> Round2(cloudtrail_cost),
       dspm_cost |-> Round2(dspm_cost),
       snapshot_cost |-> Round2(snapshot_cost),
       total_cost |-> Round2(total_cost)]

\* faulty variant: each cost is rounded before the costs are added up
BuildRow_RoundsFirst(account, region, monthly_events, monthly_egress_gb, s3_data, ec2_data, with_dspm, with_snapshot) ==
  LET eventbridge_cost == RMul(RDiv(monthly_events, RInt(1000000)), RInt(1))
      data_egress_cost == RMul(monthly_egress_gb, EgressRate(region))
      lambda_cost == <<1, 10>>
      cloudtrail_cost == RInt(0)
      dspm_cost == DspmCost(s3_data, with_dspm)
      snapshot_cost == SnapshotCost(ec2_data, with_snapshot)
      total_cost ==
        RAdd(RAdd(RAdd(RAdd(RAdd(Round2(eventbridge_cost),
                                 Round2(data_egress_cost)),
                            Round2(lambda_cost)), Round2(cloudtrail_cost)),
                  Round2(dspm_cost)),
             Round2(snapshot_cost))
  IN  [account_id |-> account.id,
       account_name |-> account.name,
       region |-> region,
       monthly_events |-> RTrunc(monthly_events),
       monthly_egress_gb |-> Round2(monthly_egress_gb),
       s3_bucket_count |-> s3_data.count,
       s3_storage_gb |-> Round2(s3_data.total_size_gb),
       ec2_instance_count |-> ec2_data.total,
       linux_instance_count |-> ec2_data.linux,
       eventbridge_cost |-> Round2(eventbridge_cost),
       data_egress_cost |-> Round2(data_egress_cost),
       lambda_cost |-> Round2(lambda_cost),
       cloudtrail_cost |-> Round2(cloudtrail_cost),
       dspm_cost |-> Round2(dspm_cost),
       snapshot_cost |-> Round2(snapshot_cost),
       total_cost |-> Round2(total_cost)]

\* lines 668-743: the costs and the row of one (account, region)
BuildRow(account, region, monthly_events, monthly_egress_gb, s3_data, ec2_data, with_dspm, with_snapshot) ==
  LET eventbridge_cost == RMul(RDiv(monthly_events, RInt(1000000)), RInt(1))
      data_egress_cost == RMul(monthly_egress_gb, EgressRate(region))
      lambda_cost == <<1, 10>>
      cloudtrail_cost == RInt(0)
      dspm_cost == DspmCost(s3_data, with_dspm)
      snapshot_cost == SnapshotCost(ec2_data, with_snapshot)
      total_cost ==
        RAdd(RAdd(RAdd(RAdd(RAdd(eventbridge_cost, data_egress_cost),
                            lambda_cost), cloudtrail_cost), dspm_cost),
             snapshot_cost)
  IN  [account_id |-> account.id,
       account_name |-> account.name,
       region |-> region,
       monthly_events |-> RTrunc(monthly_events),
       monthly_egress_gb |-> Round2(monthly_egress_gb),
       s3_bucket_count |-> s3_data.count,
       s3_storage_gb |-> Round2(s3_data.total_size_gb),
       ec2_instance_count |-> ec2_data.total,
       linux_instance_count |-> ec2_data.linux,
       eventbridge_cost |-> Round2(eventbridge_cost),
       data_egress_cost |-> Round2(data_egress_cost),
       lambda_cost |-> Round2(lambda_cost),
       cloudtrail_cost |-> Round2(cloudtrail_cost),
       dspm_cost |-> Round2(dspm_cost),
       snapshot_cost |-> Round2(snapshot_cost),
       total_cost |-> Round2(total_cost)]

(***************************************************************************)
(* Scope Resolver: get_enabled_regions_for_account.                        *)
(***************************************************************************)
RegionsResult(raised, regs, calls, sessions) ==
  [raised |-> raised, regions |-> regs, calls |-> calls, sessions |-> sessions]

\* line 240: the names of the regions not marked not-opted-in
RECURSIVE OptedIn(_)
OptedIn(described) ==
  IF described = <<>> THEN <<>>
  ELSE IF Head(described).optin # "not-opted-in"
  THEN <<Head(described).name>> \o OptedIn(Tail(described))
  ELSE OptedIn(Tail(described))

\* lines 246-256: one describe_vpcs probe per region of the catalog
RECURSIVE ProbeRegions(_, _, _)
ProbeRegions(catalog, o, acc) ==
  IF catalog = <<>> THEN acc
  ELSE LET region == Head(catalog)
           ok == region \in o.probes
       IN  ProbeRegions(Tail(catalog), o,
             [enabled |-> IF ok THEN Append(acc.enabled, region) ELSE acc.enabled,
              calls |-> Append(acc.calls,
                               Call("describe_vpcs", region,
                                    IF ok THEN "ok" ELSE "error"))])

get_enabled_regions_for_account(account_id, o, self_regions, catalog) ==
  LET s  == get_account_session(account_id, o.sess)
      ss == <<s.session.kind>>
      c1 == Append(s.calls, CountCall("describe_regions", o.describe))
      probed == ProbeRegions(catalog, o, [enabled |-> <<>>, calls |-> c1])
  IN  IF s.raised THEN RegionsResult(TRUE, <<>>, s.calls, <<"raised">>)
      ELSE IF s.session = NoSession
      THEN RegionsResult(FALSE, self_regions, s.calls, ss)
      ELSE IF ~o.describe.err
      THEN RegionsResult(FALSE, OptedIn(o.describe.regions), c1, ss)
      ELSE RegionsResult(FALSE,
                         IF probed.enabled # <<>> THEN probed.enabled
                                                  ELSE self_regions,
                         probed.calls, ss)

(***************************************************************************)
(* calculate_costs: one turn of the region loop (lines 654-757), up to the *)
(* row.  Each estimator resolves the account's credentials on its own.     *)
(***************************************************************************)
NoRow == [account_id |-> "", region |-> ""]

RegionResult(raised, row, ev, eg, s3, ec2) ==
  [raised |-> raised, row |-> row, events |-> ev, egress |-> eg,
   s3_data |-> s3, ec2_data |-> ec2,
   calls |-> ev.calls \o eg.calls \o s3.calls \o ec2.calls,
   sessions |-> ev.sessions \o eg.sessions \o s3.sessions \o ec2.sessions]

NotCalled == [raised |-> FALSE, calls |-> <<>>, sessions |-> <<>>]

\* faulty variant: every estimator of the row works under the session the first one got
calculate_costs_region_ResolvesOnce(account, region, o, with_dspm, with_snapshot) ==
  LET ev  == estimate_cloudtrail_events(account.id, region, o.events)
      eg  == estimate_data_transfer(account.id, region,
                                    [o.egress EXCEPT !.sess = o.events.sess,
                                                     !.events.sess = o.events.sess])
      s3  == IF with_dspm
             THEN estimate_s3_buckets(account.id, region,
                                 [o.s3 EXCEPT !.sess = o.events.sess], with_dspm)
             ELSE S3Result(FALSE, 0, RInt(0), RInt(0), <<>>, <<>>)
      ec2 == IF with_snapshot
             THEN estimate_ec2_instances(account.id, region,
                                    [o.ec2 EXCEPT !.sess = o.events.sess],
                                    with_snapshot)
             ELSE EC2Result(FALSE, 0, 0, 0, 0, <<>>, <<>>)
  IN  IF ev.raised THEN RegionResult(TRUE, NoRow, ev, NotCalled, NotCalled, NotCalled)
      ELSE IF eg.raised THEN RegionResult(TRUE, NoRow, ev, eg, NotCalled, NotCalled)
      ELSE IF s3.raised THEN RegionResult(TRUE, NoRow, ev, eg, s3, NotCalled)
      ELSE IF ec2.raised THEN RegionResult(TRUE, NoRow, ev, eg, s3, ec2)
      ELSE RegionResult(FALSE,
                        BuildRow(account, region, ev.value, eg.value, s3, ec2,
                                 with_dspm, with_snapshot),
                        ev, eg, s3, ec2)

calculate_costs_region(account, region, o, with_dspm, with_snapshot) ==
  LET ev  == estimate_cloudtrail_events(account.id, region, o.events)
      eg  == estimate_data_transfer(account.id, region, o.egress)
      s3  == IF with_dspm
             THEN estimate_s3_buckets(account.id, region, o.s3, with_dspm)
             ELSE S3Result(FALSE, 0, RInt(0), RInt(0), <<>>, <<>>)
      ec2 == IF with_snapshot
             THEN estimate_ec2_instances(account.id, region, o.ec2, with_snapshot)
             ELSE EC2Result(FALSE, 0, 0, 0, 0, <<>>, <<>>)
  IN  IF ev.raised THEN RegionResult(TRUE, NoRow, ev, NotCalled, NotCalled, NotCalled)
      ELSE IF eg.raised THEN RegionResult(TRUE, NoRow, ev, eg, NotCalled, NotCalled)
      ELSE IF s3.raised THEN RegionResult(TRUE, NoRow, ev, eg, s3, NotCalled)
      ELSE IF ec2.raised THEN RegionResult(TRUE, NoRow, ev, eg, s3, ec2)
      ELSE RegionResult(FALSE,
                        BuildRow(account, region, ev.value, eg.value, s3, ec2,
                                 with_dspm, with_snapshot),
                        ev, eg, s3, ec2)

(***************************************************************************)
(* What the external services can answer: the oracles.                     *)
(***************************************************************************)
\* bounds of the model
MaxPoints == 2

MaxAccounts == 2

MaxRegions == 2

AccountIds == {"111", "222", "333"}

\* all sequences over S of length at most n
RECURSIVE SeqsUpTo(_, _)
SeqsUpTo(S, n) ==
  IF n = 0 THEN {<<>>}
  ELSE LET shorter == SeqsUpTo(S, n - 1)
       IN  shorter \cup {Append(q, x) : q \in {t \in shorter : Len(t) = n - 1},
                                        x \in S}

SessionOracles == [ident : {RootAccount, "raise"}, assume : SUBSET Roles]

\* for the broker alone: any account may be the caller's
BrokerOracles == [ident : AccountIds \cup {"raise"}, assume : SUBSET Roles]

MetricRaises == [err |-> TRUE, points |-> <<>>]

HasData(r) == ~r.err /\ r.points # <<>>

IsEmpty(r) == ~r.err /\ r.points = <<>>

MetricAnswers(values, n) ==
  {MetricRaises} \cup {[err |-> FALSE, points |-> q] : q \in SeqsUpTo(values, n)}

\* daily event / API call counts
EventSums == {0, 20000}

\* daily bytes delivered
ByteSums == {0, 67108864}

InstanceAnswers ==
  {[err |-> TRUE, reservations |-> <<>>]} \cup
  {[err |-> FALSE, reservations |-> q] : q \in {<<>>, <<1>>, <<12, 10>>}}

PrincipalAnswers ==
  {[err |-> TRUE, n |-> 0]} \cup {[err |-> FALSE, n |-> k] : k \in {0, 9}}

EventsOracles ==
  [sess : SessionOracles,
   t1 : MetricAnswers(EventSums, MaxPoints),
   t2 : MetricAnswers(EventSums, MaxPoints),
   ec2 : InstanceAnswers, users : PrincipalAnswers, roles : PrincipalAnswers]

\* the event oracles behind an egress estimate: one datapoint at most
NestedEventsOracles ==
  [sess : [ident : {RootAccount, "raise"}, assume : {{}, Roles}],
   t1 : MetricAnswers({20000}, 1),
   t2 : MetricAnswers({20000}, 1),
   ec2 : {x \in InstanceAnswers : Len(x.reservations) < 2},
   users : {x \in PrincipalAnswers : x.n = 0},
   roles : {x \in PrincipalAnswers : x.n = 0}]

EgressOracles ==
  [sess : SessionOracles,
   t1 : MetricAnswers(ByteSums, MaxPoints),
   events : NestedEventsOracles]

(***************************************************************************)
(* One call of one estimator on one oracle.                                *)
(***************************************************************************)
NoInput == [fn |-> "none"]

NoOutput == [raised |-> FALSE]

\* run() has written nothing yet
NoReport == [written |-> FALSE]

MainIdle ==
  /\ mainpc = "idle"
  /\ regions = <<>>
  /\ include_all_regions = FALSE
  /\ include_dspm = FALSE
  /\ include_snapshot = FALSE
  /\ all_available_regions = <<>>
  /\ accounts = <<>>
  /\ results = <<>>
  /\ print_lock = 0
  /\ tasks = <<>>
  /\ report = NoReport

Return(value) ==
  /\ fpc = "call"
  /\ fpc' = "return"
  /\ fout' = value
  /\ UNCHANGED <<fin, mainvars>>

InitBroker ==
  /\ MainIdle
  /\ fpc = "call"
  /\ fin \in [fn : {"_get_account_session"}, account_id : AccountIds,
              o : BrokerOracles]
  /\ fout = NoOutput

CallBroker ==
  /\ fin.fn = "_get_account_session"
  /\ Return(get_account_session(fin.account_id, fin.o))

SpecBroker == InitBroker /\ [][CallBroker]_vars

InitEvents ==
  /\ MainIdle
  /\ fpc = "call"
  /\ fin \in [fn : {"estimate_cloudtrail_events"}, account_id : {"111", "222"},
              region : {"us-east-1"}, o : EventsOracles]
  /\ fout = NoOutput

CallEvents ==
  /\ fin.fn = "estimate_cloudtrail_events"
  /\ Return(estimate_cloudtrail_events(fin.account_id, fin.region, fin.o))

SpecEvents == InitEvents /\ [][CallEvents]_vars

InitEgress ==
  /\ MainIdle
  /\ fpc = "call"
  /\ fin \in [fn : {"estimate_data_transfer"}, account_id : {"111", "222"},
              region : {"us-east-1"}, o : EgressOracles]
  /\ fout = NoOutput

CallEgress ==
  /\ fin.fn = "estimate_data_transfer"
  /\ Return(estimate_data_transfer(fin.account_id, fin.region, fin.o))

SpecEgress == InitEgress /\ [][CallEgress]_vars

(***************************************************************************)
(* One turn of the region loop of calculate_costs on one oracle.           *)
(***************************************************************************)
Denied == [ident |-> RootAccount, assume |-> {}]

RowSessions ==
  {Denied, [ident |-> RootAccount, assume |-> Roles],
   [ident |-> "raise", assume |-> {}]}

RowMetric(value) ==
  {MetricRaises, [err |-> FALSE, points |-> <<>>],
   [err |-> FALSE, points |-> <<value>>]}

RowEventsOracles ==
  [sess : RowSessions,
   t1 : RowMetric(20000),
   t2 : {x \in RowMetric(20000) : x.points = <<>>},
   ec2 : {x \in InstanceAnswers : x.err \/ Len(x.reservations) = 2},
   users : {x \in PrincipalAnswers : x.n = 9},
   roles : {x \in PrincipalAnswers : x.n = 9}]

RowEgressOracles ==
  [sess : RowSessions,
   t1 : RowMetric(67108864),
   events : [sess : RowSessions \ {[ident |-> "raise", assume |-> {}]},
             t1 : {x \in RowMetric(20000) : IsEmpty(x)},
             t2 : {MetricRaises},
             ec2 : {x \in InstanceAnswers : x.err},
             users : {x \in PrincipalAnswers : x.err},
             roles : {x \in PrincipalAnswers : x.err}]]

Bucket(name, location) ==
  [name |-> name, loc |-> [err |-> FALSE, value |-> location],
   size |-> [err |-> FALSE, points |-> <<BytesPerGB>>]]

S3Oracles ==
  [sess : {Denied, [ident |-> RootAccount, assume |-> Roles]},
   list : {[err |-> TRUE, buckets |-> <<>>],
           [err |-> FALSE, buckets |-> <<>>],
           [err |-> FALSE,
            buckets |-> <<Bucket("logs", "None"), Bucket("data", "ap-south-1")>>]}]

Instance(platform, description) ==
  [platform |-> platform, image_id |-> "ami-1",
   image |-> [err |-> FALSE, found |-> TRUE, description |-> description,
              platform |-> ""]]

EC2Oracles ==
  [sess : {Denied, [ident |-> RootAccount, assume |-> Roles]},
   list : {[err |-> TRUE, instances |-> <<>>],
           [err |-> FALSE, instances |-> <<Instance("Windows", "")>>],
           [err |-> FALSE,
            instances |-> <<Instance("", "Ubuntu Server"),
                            Instance("Windows", "")>>]}]

\* an estimator that is switched off is never asked
Unasked(S) == {CHOOSE x \in S : TRUE}

RowInputs(d, n) ==
  {[fn |-> "calculate_costs", account |-> a, region |-> r,
    with_dspm |-> d, with_snapshot |-> n,
    o |-> [events |-> ev, egress |-> eg, s3 |-> b, ec2 |-> i]] :
     a \in {[id |-> "111", name |-> "root"], [id |-> "222", name |-> "dev"]},
     r \in {"us-east-1", "ap-south-1"},
     ev \in RowEventsOracles, eg \in RowEgressOracles,
     b \in IF d THEN S3Oracles ELSE Unasked(S3Oracles),
     i \in IF n THEN EC2Oracles ELSE Unasked(EC2Oracles)}

InitRow ==
  /\ MainIdle
  /\ fpc = "call"
  /\ \E d \in BOOLEAN, n \in BOOLEAN : fin \in RowInputs(d, n)
  /\ fout = NoOutput

CallRow ==
  /\ fin.fn = "calculate_costs"
  /\ Return(calculate_costs_region(fin.account, fin.region, fin.o,
                                   fin.with_dspm, fin.with_snapshot))

SpecRow == InitRow /\ [][CallRow]_vars

(***************************************************************************)
(* Aggregation: lines 783-824 of run and _add_business_unit_summary.       *)
(* A summary is the function from the keys of a groupby to the sum of      *)
(* 'Total Estimated Cost' over the rows of the key; the order in which a   *)
(* summary is printed is not part of it.                                   *)
(***************************************************************************)
Pair(key, value) == [key |-> key, value |-> value]

\* faulty variant: a later row of a key replaces the sum so far
RECURSIVE GroupSum_KeepsLast(_, _)
GroupSum_KeepsLast(pairs, acc) ==
  IF pairs = <<>> THEN acc
  ELSE LET p == Head(pairs)
       IN  GroupSum_KeepsLast(Tail(pairs),
                              IF p.key \in DOMAIN acc
                              THEN [acc EXCEPT ![p.key] = p.value]
                              ELSE acc @@ (p.key :> p.value))

\* df.groupby(key)[column].sum(), over the (key, column) pairs of the rows
RECURSIVE GroupSum(_, _)
GroupSum(pairs, acc) ==
  IF pairs = <<>> THEN acc
  ELSE LET p == Head(pairs)
       IN  GroupSum(Tail(pairs),
                    IF p.key \in DOMAIN acc
                    THEN [acc EXCEPT ![p.key] = RAdd(@, p.value)]
                    ELSE acc @@ (p.key :> p.value))

\* df[column].sum()
RECURSIVE ColumnSum(_)
ColumnSum(values) ==
  IF values = <<>> THEN RInt(0) ELSE RAdd(Head(values), ColumnSum(Tail(values)))

NoFunction == [x \in {} |-> 0]

ByAccount(df) ==
  GroupSum([i \in 1..Len(df) |->
              Pair(<<df[i].account_id, df[i].account_name>>, df[i].total_cost)],
           NoFunction)

ByRegion(df) ==
  GroupSum([i \in 1..Len(df) |-> Pair(df[i].region, df[i].total_cost)], NoFunction)

\* df['Account ID'].unique(): the ids in the order of their first row
RECURSIVE Unique(_, _)
Unique(ids, acc) ==
  IF ids = <<>> THEN acc
  ELSE Unique(Tail(ids),
              IF \E i \in 1..Len(acc) : acc[i] = Head(ids) THEN acc
              ELSE Append(acc, Head(ids)))

BusinessUnitKeys == {"businessunit", "business-unit", "bu"}

\* lines 868-869: the first tag whose key is a business-unit key
RECURSIVE FirstBusinessUnitTag(_)
FirstBusinessUnitTag(tags) ==
  IF tags = <<>> THEN [found |-> FALSE, Value |-> ""]
  ELSE IF Lower(Head(tags).Key) \in BusinessUnitKeys
  THEN [found |-> TRUE, Value |-> Head(tags).Value]
  ELSE FirstBusinessUnitTag(Tail(tags))

\* lines 862-876: the business unit of one account; `if bu_tag:` holds for
\* every tag found, a tag being a non-empty dict
BusinessUnitOf(answer) ==
  LET bu_tag == FirstBusinessUnitTag(answer.tags)
  IN  IF answer.err THEN "Untagged"
      ELSE IF bu_tag.found THEN bu_tag.Value
      ELSE "Untagged"

\* faulty variant: a failed tag lookup ends the loop over the accounts
RECURSIVE AccountTags_StopsAtError(_, _, _)
AccountTags_StopsAtError(account_ids, o, acc) ==
  IF account_ids = <<>> THEN acc
  ELSE LET account_id == Head(account_ids)
           answer == o[account_id]
           call == Call("list_tags_for_resource", account_id,
                        IF answer.err THEN "error" ELSE "ok")
       IN  IF answer.err
           THEN [tags |-> acc.tags, calls |-> Append(acc.calls, call)]
           ELSE AccountTags_StopsAtError(Tail(account_ids), o,
                  [tags |-> acc.tags @@ (account_id :> BusinessUnitOf(answer)),
                   calls |-> Append(acc.calls, call)])

\* lines 861-876: account_tags, one tag lookup per account
RECURSIVE AccountTags(_, _, _)
AccountTags(account_ids, o, acc) ==
  IF account_ids = <<>> THEN acc
  ELSE LET account_id == Head(account_ids)
           answer == o[account_id]
           call == Call("list_tags_for_resource", account_id,
                        IF answer.err THEN "error" ELSE "ok")
       IN  AccountTags(Tail(account_ids), o,
                       [tags |-> acc.tags @@ (account_id :> BusinessUnitOf(answer)),
                        calls |-> Append(acc.calls, call)])

\* the rows of df at the positions of `keep`, in order
RECURSIVE SubsetRows(_, _)
SubsetRows(df, keep) ==
  IF df = <<>> THEN <<>>
  ELSE LET rest == SubsetRows(Tail(df), {i - 1 : i \in keep \ {1}})
       IN  IF 1 \in keep THEN <<Head(df)>> \o rest ELSE rest

\* o[account id]: what list_tags_for_resource answers for the account.
\* An account without an entry in account_tags gets NaN from map() and the
\* groupby leaves its rows out.
add_business_unit_summary(df, o) ==
  LET account_ids == Unique([i \in 1..Len(df) |-> df[i].account_id], <<>>)
      t == AccountTags(account_ids, o, [tags |-> NoFunction, calls |-> <<>>])
      mapped == {i \in 1..Len(df) : df[i].account_id \in DOMAIN t.tags}
      tagged == SubsetRows(df, mapped)
      bu_summary ==
        GroupSum([i \in 1..Len(tagged) |->
                    Pair(t.tags[tagged[i].account_id], tagged[i].total_cost)],
                 NoFunction)
  IN  [generated |-> TRUE, account_tags |-> t.tags, bu_summary |-> bu_summary,
       calls |-> t.calls]

NoBusinessUnits ==
  [generated |-> FALSE, account_tags |-> NoFunction, bu_summary |-> NoFunction,
   calls |-> <<>>]

TotalCosts(df) == [i \in 1..Len(df) |-> df[i].total_cost]

DspmCosts(df) == [i \in 1..Len(df) |-> df[i].dspm_cost]

SnapshotCosts(df) == [i \in 1..Len(df) |-> df[i].snapshot_cost]

\* run, lines 783-824: the frame of the rows, the CSV, then the summaries.
\* A frame without rows has no 'Account ID' column: the groupby of line 789
\* raises after the CSV was written.
run_aggregate(rows, o, with_dspm, with_snapshot) ==
  LET df == rows
  IN  IF df = <<>>
      THEN [written |-> TRUE, csv |-> df, crashed |-> TRUE,
            account_summary |-> NoFunction, region_summary |-> NoFunction,
            business_units |-> NoBusinessUnits, total |-> RInt(0),
            dspm_total |-> RInt(0), snapshot_total |-> RInt(0)]
      ELSE [written |-> TRUE, csv |-> df, crashed |-> FALSE,
            account_summary |-> ByAccount(df),
            region_summary |-> ByRegion(df),
            business_units |-> add_business_unit_summary(df, o),
            total |-> ColumnSum(TotalCosts(df)),
            dspm_total |-> IF with_dspm THEN ColumnSum(DspmCosts(df))
                                        ELSE RInt(0),
            snapshot_total |-> IF with_snapshot THEN ColumnSum(SnapshotCosts(df))
                                                ELSE RInt(0)]

Tag(key, value) == [Key |-> key, Value |-> value]

\* organizations.list_tags_for_resource of lines 864-866
TagAnswers ==
  {[err |-> TRUE, tags |-> <<Tag("BU", "Core")>>],
   [err |-> FALSE, tags |-> <<>>],
   [err |-> FALSE, tags |-> <<Tag("Owner", "ops")>>],
   [err |-> FALSE, tags |-> <<Tag("Owner", "ops"), Tag("BusinessUnit", "Core")>>],
   [err |-> FALSE, tags |-> <<Tag("bu", "Labs"), Tag("Business-Unit", "Core")>>],
   [err |-> FALSE, tags |-> <<Tag("business_unit", "Core")>>]}

(***************************************************************************)
(* The aggregation of run on a given result collection, made twice: on the *)
(* rows as they are, then on the same rows in another order.               *)
(***************************************************************************)
MaxRows == 3

AggAccounts == {[id |-> "111", name |-> "root"], [id |-> "222", name |-> "dev"]}

AggRegions == {"us-east-1", "ap-south-1"}

\* the row of an (account, region): the accounts differ in their events
AggRow(account, region, with_dspm, with_snapshot) ==
  BuildRow(account, region,
           IF account.id = RootAccount THEN RInt(DefaultEvents) ELSE RInt(1234567),
           RInt(100), DefaultS3(<<>>, <<>>), DefaultEC2(<<>>, <<>>),
           with_dspm, with_snapshot)

\* the result collections of at most MaxRows rows, one row per (account, region)
AggRowSeqs(with_dspm, with_snapshot) ==
  LET pairs == AggAccounts \X AggRegions
      seqs == {q \in SeqsUpTo(pairs, MaxRows) :
                 /\ q # <<>>
                 /\ \A i, j \in 1..Len(q) : q[i] = q[j] => i = j}
  IN  {[i \in 1..Len(q) |-> AggRow(q[i][1], q[i][2], with_dspm, with_snapshot)] :
         q \in seqs}

AggTagOracles == [{"111", "222"} -> TagAnswers]

Reordered(rows, order) == [i \in 1..Len(rows) |-> rows[order[i]]]

InitAggregate ==
  /\ MainIdle
  /\ fpc = "call"
  /\ \E d \in BOOLEAN, n \in BOOLEAN :
       fin \in [fn : {"aggregate"}, rows : AggRowSeqs(d, n), o : AggTagOracles,
                with_dspm : {d}, with_snapshot : {n}]
  /\ fout = NoOutput

CallAggregate ==
  /\ fin.fn = "aggregate"
  /\ Return([first |-> run_aggregate(fin.rows, fin.o, fin.with_dspm,
                                     fin.with_snapshot)])

CallAggregateAgain ==
  /\ fin.fn = "aggregate"
  /\ fpc = "return"
  /\ fpc' = "again"
  /\ \E order \in Permutations(1..Len(fin.rows)) :
       fout' = [first |-> fout.first,
                order |-> order,
                second |-> run_aggregate(Reordered(fin.rows, order), fin.o,
                                         fin.with_dspm, fin.with_snapshot)]
  /\ UNCHANGED <<fin, mainvars>>

SpecAggregate == InitAggregate /\ [][CallAggregate \/ CallAggregateAgain]_vars

(***************************************************************************)
(* The program: main() constructs the estimator and calls run().           *)
(* A worker task is calculate_costs on one account.  The estimators of one *)
(* region are taken in one step (Measure): they share no state with the    *)
(* other tasks, and the error lines some of them print under print_lock    *)
(* have no effect on what they return.                                     *)
(***************************************************************************)
\* line 779
max_workers == 20

\* the regions describe_regions can name, and the start of the list of
\* lines 118-124 that stands in for the whole list
KnownRegions == <<"us-east-1", "ap-south-1", "sa-east-1", "eu-west-1">>

HardcodedRegions == SubSeq(<<"us-east-1", "us-east-2", "us-west-1", "us-west-2">>,
                           1, MaxRegions)

Prefixes(q, n) == {SubSeq(q, 1, k) : k \in 0..n}

\* --regions on the command line
RegionArguments == Prefixes(<<"ap-south-1", "us-east-1", "sa-east-1">>, MaxRegions)

\* ec2.describe_regions() of line 115
CatalogAnswers ==
  {[err |-> TRUE, regions |-> <<>>]} \cup
  {[err |-> FALSE, regions |-> q] : q \in Prefixes(KnownRegions, MaxRegions) \ {<<>>}}

Member(id, name, status) == [Id |-> id, Name |-> name, Status |-> status]

Organization ==
  <<Member("111", "root", "ACTIVE"), Member("333", "old", "SUSPENDED"),
    Member("222", "dev", "ACTIVE"), Member("444", "qa", "ACTIVE")>>

IsActive(account) == account.Status = "ACTIVE"

\* organizations.list_accounts of lines 139-144
ListingAnswers ==
  {[err |-> TRUE, accounts |-> <<>>]} \cup
  {[err |-> FALSE, accounts |-> q] :
     q \in {x \in Prefixes(Organization, Len(Organization)) :
              Len(SelectSeq(x, IsActive)) <= MaxAccounts}}

\* sts.get_caller_identity and iam.list_account_aliases of lines 155-157
IdentityAnswers == {"raise", RootAccount}

AliasAnswers == {[err |-> TRUE, aliases |-> <<>>], [err |-> FALSE, aliases |-> <<>>],
                 [err |-> FALSE, aliases |-> <<"acme">>]}

\* what one account answers to get_enabled_regions_for_account
RegionOracles ==
  [sess : RowSessions,
   describe : {[err |-> TRUE, regions |-> <<>>],
               [err |-> FALSE,
                regions |-> <<[name |-> "us-east-1", optin |-> "opt-in-not-required"],
                              [name |-> "me-south-1", optin |-> "not-opted-in"]>>]},
   probes : {{}, {"us-east-1"}}]

\* what one (account, region) answers to the estimators: the caller's
\* identity and the roles for the event estimate and for the egress
\* estimate, and the Events metric
MainRowOracle(s1, s2, m) ==
  [events |-> [sess |-> s1, t1 |-> m, t2 |-> MetricRaises,
               ec2 |-> [err |-> TRUE, reservations |-> <<>>],
               users |-> [err |-> TRUE, n |-> 0],
               roles |-> [err |-> TRUE, n |-> 0]],
   egress |-> [sess |-> s2, t1 |-> MetricRaises,
               events |-> [sess |-> Denied, t1 |-> MetricRaises,
                           t2 |-> MetricRaises,
                           ec2 |-> [err |-> TRUE, reservations |-> <<>>],
                           users |-> [err |-> TRUE, n |-> 0],
                           roles |-> [err |-> TRUE, n |-> 0]]],
   s3 |-> [sess |-> Denied, list |-> [err |-> TRUE, buckets |-> <<>>]],
   ec2 |-> [sess |-> Denied, list |-> [err |-> TRUE, instances |-> <<>>]]]

Unreachable == [ident |-> "raise", assume |-> {}]

Assumable == [ident |-> RootAccount, assume |-> Roles]

MainRowOracles ==
  {MainRowOracle(Denied, Denied, MetricRaises),
   MainRowOracle(Assumable, Assumable, [err |-> FALSE, points |-> <<20000>>]),
   MainRowOracle(Assumable, Unreachable, MetricRaises),
   MainRowOracle(Unreachable, Denied, MetricRaises)}

\* __init__, lines 112-126: the catalog, or the built-in list
region_catalog(answer) == IF answer.err THEN HardcodedRegions ELSE answer.regions

\* __init__, lines 128-136: self.regions
regions_to_analyze(regions_arg, all_regions, catalog) ==
  IF all_regions THEN catalog
  ELSE IF regions_arg = <<>> THEN <<"us-east-1">>
  ELSE regions_arg

\* faulty variant: the regions of the account are discovered in both modes
account_regions_of_AlwaysDiscovers(account_id, all_regions, o, self_regions, catalog) ==
  get_enabled_regions_for_account(account_id, o, self_regions, catalog)

\* calculate_costs, lines 646-652: account_regions
account_regions_of(account_id, all_regions, o, self_regions, catalog) ==
  IF all_regions
  THEN get_enabled_regions_for_account(account_id, o, self_regions, catalog)
  ELSE RegionsResult(FALSE, self_regions, <<>>, <<>>)

Task(account) ==
  [pc |-> "queued", account |-> account, account_regions |-> <<>>, k |-> 0,
   result |-> NoRow]

Init ==
  /\ mainpc = "bootstrap"
  /\ regions \in RegionArguments
  /\ include_all_regions \in BOOLEAN
  /\ include_dspm \in BOOLEAN
  /\ include_snapshot \in BOOLEAN
  /\ all_available_regions = <<>>
  /\ accounts = <<>>
  /\ results = <<>>
  /\ print_lock = 0
  /\ tasks = <<>>
  /\ report = NoReport
  /\ fpc = "main"
  /\ fin = NoInput
  /\ fout = NoOutput

\* __init__, lines 94-110: aws_creds.get_session()
Bootstrap ==
  /\ mainpc = "bootstrap"
  /\ \E ok \in BOOLEAN : mainpc' = IF ok THEN "catalog" ELSE "exit"
  /\ UNCHANGED <<regions, include_all_regions, include_dspm, include_snapshot,
                 all_available_regions, accounts, results, print_lock, tasks,
                 report, fpc,
                 fin, fout>>

\* __init__, lines 112-136: the region catalog and the regions to analyse
LoadCatalog ==
  /\ mainpc = "catalog"
  /\ \E answer \in CatalogAnswers :
       LET catalog == region_catalog(answer)
       IN  /\ all_available_regions' = catalog
           /\ regions' = regions_to_analyze(regions, include_all_regions, catalog)
  /\ mainpc' = "organizations"
  /\ UNCHANGED <<include_all_regions, include_dspm, include_snapshot, accounts,
                 results, print_lock, tasks, report, fpc,
                 fin, fout>>

\* line 146-148
ActiveAccounts(listed) ==
  LET active == SelectSeq(listed, IsActive)
  IN  [i \in 1..Len(active) |-> [id |-> active[i].Id, name |-> active[i].Name]]

\* __init__, lines 138-159: the accounts of the organization, or the
\* caller's own account when the listing fails
ListAccounts ==
  /\ mainpc = "organizations"
  /\ \E answer \in ListingAnswers, ident \in IdentityAnswers, alias \in AliasAnswers :
       IF ~answer.err
       THEN /\ accounts' = ActiveAccounts(answer.accounts)
            /\ mainpc' = "run"
       ELSE IF ident = "raise" \/ alias.err
       THEN /\ accounts' = accounts
            /\ mainpc' = "crashed"
       ELSE /\ accounts' = <<[id |-> ident,
                              name |-> IF alias.aliases # <<>>
                                       THEN alias.aliases[1] ELSE ident]>>
            /\ mainpc' = "run"
  /\ UNCHANGED <<regions, include_all_regions, include_dspm, include_snapshot,
                 all_available_regions, results, print_lock, tasks, report, fpc,
                 fin, fout>>

\* run, lines 779-780: one task per account handed to the pool
Dispatch ==
  /\ mainpc = "run"
  /\ tasks' = [i \in 1..Len(accounts) |-> Task(accounts[i])]
  /\ mainpc' = "pool"
  /\ UNCHANGED <<regions, include_all_regions, include_dspm, include_snapshot,
                 all_available_regions, accounts, results, print_lock, report,
                 fpc, fin, fout>>

Running(t) == tasks[t].pc \notin {"queued", "done", "failed"}

\* where the region loop of line 654 goes after k regions
LoopPc(k, account_regions) == IF k < Len(account_regions) THEN "analyze" ELSE "done"

Step(t, task) ==
  /\ tasks' = [tasks EXCEPT ![t] = task]
  /\ UNCHANGED <<mainpc, regions, include_all_regions, include_dspm,
                 include_snapshot, all_available_regions, accounts, report, fpc,
                 fin, fout>>

\* a pool thread picks the next account up: lines 643-652
TaskStart(t) ==
  /\ mainpc = "pool"
  /\ tasks[t].pc = "queued"
  /\ \A u \in 1..(t - 1) : tasks[u].pc # "queued"
  /\ Cardinality({u \in 1..Len(tasks) : Running(u)}) < max_workers
  /\ Step(t, IF include_all_regions
             THEN [tasks[t] EXCEPT !.pc = "regions"]
             ELSE [tasks[t] EXCEPT !.account_regions = regions,
                                   !.pc = LoopPc(0, regions)])
  /\ UNCHANGED <<results, print_lock>>

\* line 648
ResolveRegions(t) ==
  /\ tasks[t].pc = "regions"
  /\ \E o \in RegionOracles :
       LET r == get_enabled_regions_for_account(tasks[t].account.id, o, regions,
                                                all_available_regions)
       IN  Step(t, IF r.raised
                   THEN [tasks[t] EXCEPT !.pc = "failed"]
                   ELSE [tasks[t] EXCEPT !.account_regions = r.regions,
                                         !.pc = "announce"])
  /\ UNCHANGED <<results, print_lock>>

\* the pc of a task inside each `with print_lock:` of calculate_costs
Holding == [announce |-> "announcing", analyze |-> "analyzing", report |-> "reporting"]

\* faulty variant: the lock is taken without waiting for it
AcquirePrintLock_NoWait(t) ==
  /\ tasks[t].pc \in DOMAIN Holding
  /\ print_lock' = t
  /\ Step(t, [tasks[t] EXCEPT !.pc = Holding[tasks[t].pc]])
  /\ UNCHANGED results

\* lines 649, 655, 745: entering `with print_lock:`
AcquirePrintLock(t) ==
  /\ tasks[t].pc \in DOMAIN Holding
  /\ print_lock = 0
  /\ print_lock' = t
  /\ Step(t, [tasks[t] EXCEPT !.pc = Holding[tasks[t].pc]])
  /\ UNCHANGED results

\* faulty variant: the print is done and the lock is kept
ReleasePrintLock_KeepsLock(t) ==
  /\ tasks[t].pc \in {Holding[x] : x \in DOMAIN Holding}
  /\ print_lock = t
  /\ print_lock' = t
  /\ Step(t, [tasks[t] EXCEPT !.pc =
                CASE tasks[t].pc = "announcing" -> LoopPc(0, tasks[t].account_regions)
                  [] tasks[t].pc = "analyzing" -> "measure"
                  [] tasks[t].pc = "reporting" -> "append"])
  /\ UNCHANGED results

\* lines 650, 656, 755: the print is done and the lock released
ReleasePrintLock(t) ==
  /\ tasks[t].pc \in {Holding[x] : x \in DOMAIN Holding}
  /\ print_lock = t
  /\ print_lock' = 0
  /\ Step(t, [tasks[t] EXCEPT !.pc =
                CASE tasks[t].pc = "announcing" -> LoopPc(0, tasks[t].account_regions)
                  [] tasks[t].pc = "analyzing" -> "measure"
                  [] tasks[t].pc = "reporting" -> "append"])
  /\ UNCHANGED results

\* lines 659-743: the estimators and the row of the current region; an
\* exception leaves calculate_costs and ends the task
Measure(t) ==
  /\ tasks[t].pc = "measure"
  /\ \E o \in MainRowOracles :
       LET region == tasks[t].account_regions[tasks[t].k + 1]
           r == calculate_costs_region(tasks[t].account, region, o,
                                       include_dspm, include_snapshot)
       IN  Step(t, IF r.raised
                   THEN [tasks[t] EXCEPT !.pc = "failed"]
                   ELSE [tasks[t] EXCEPT !.result = r.row, !.pc = "report"])
  /\ UNCHANGED <<results, print_lock>>

\* faulty variant: the row is put in front of the rows collected so far
AppendResult_Prepends(t) ==
  /\ tasks[t].pc = "append"
  /\ results' = <<tasks[t].result>> \o results
  /\ Step(t, [tasks[t] EXCEPT !.k = @ + 1,
                              !.pc = LoopPc(tasks[t].k + 1,
                                            tasks[t].account_regions)])
  /\ UNCHANGED print_lock

\* faulty variant: an append made while another task is at its own append
\* is lost
AppendResult_LostUpdate(t) ==
  /\ tasks[t].pc = "append"
  /\ results' = IF \E u \in 1..Len(tasks) : u # t /\ tasks[u].pc = "append"
                THEN results
                ELSE Append(results, tasks[t].result)
  /\ Step(t, [tasks[t] EXCEPT !.k = @ + 1,
                              !.pc = LoopPc(tasks[t].k + 1,
                                            tasks[t].account_regions)])
  /\ UNCHANGED print_lock

\* line 757: self.results.append(result), a single list append
AppendResult(t) ==
  /\ tasks[t].pc = "append"
  /\ results' = Append(results, tasks[t].result)
  /\ Step(t, [tasks[t] EXCEPT !.k = @ + 1,
                              !.pc = LoopPc(tasks[t].k + 1,
                                            tasks[t].account_regions)])
  /\ UNCHANGED print_lock

\* the accounts list_tags_for_resource is asked about
MainTagOracles ==
  [{accounts[i].id : i \in 1..Len(accounts)} ->
     {x \in TagAnswers : x.err \/ (Len(x.tags) = 2 /\ x.tags[1].Key = "Owner")}]

\* faulty variant: run() goes on only if no task raised
Join_NeedsSuccess ==
  /\ mainpc = "pool"
  /\ \A t \in 1..Len(tasks) : tasks[t].pc = "done"
  /\ mainpc' = "aggregate"
  /\ UNCHANGED <<regions, include_all_regions, include_dspm, include_snapshot,
                 all_available_regions, accounts, results, print_lock, tasks,
                 report, fpc, fin, fout>>

\* faulty variant: run() does not wait for the pool
Join_NoWait ==
  /\ mainpc = "pool"
  /\ mainpc' = "aggregate"
  /\ UNCHANGED <<regions, include_all_regions, include_dspm, include_snapshot,
                 all_available_regions, accounts, results, print_lock, tasks,
                 report, fpc, fin, fout>>

\* line 780: leaving the `with ThreadPoolExecutor` block waits for every
\* task; what a task raised stays in a future nobody reads
Join ==
  /\ mainpc = "pool"
  /\ \A t \in 1..Len(tasks) : tasks[t].pc \in {"done", "failed"}
  /\ mainpc' = "aggregate"
  /\ UNCHANGED <<regions, include_all_regions, include_dspm, include_snapshot,
                 all_available_regions, accounts, results, print_lock, tasks,
                 report, fpc,
                 fin, fout>>

\* faulty variant: the business unit column is written into the collected rows
Aggregate_TagsRows ==
  /\ mainpc = "aggregate"
  /\ \E o \in MainTagOracles :
       /\ report' = run_aggregate(results, o, include_dspm, include_snapshot)
       /\ results' = [i \in 1..Len(results) |->
                        [results[i] EXCEPT !.account_name =
                           report'.business_units.account_tags[results[i].account_id]]]
  /\ mainpc' = IF results = <<>> THEN "crashed" ELSE "done"
  /\ UNCHANGED <<regions, include_all_regions, include_dspm, include_snapshot,
                 all_available_regions, accounts, print_lock, tasks,
                 fpc, fin, fout>>

\* lines 783-824: the frame of the rows, the CSV and the summaries
Aggregate ==
  /\ mainpc = "aggregate"
  /\ \E o \in MainTagOracles :
       report' = run_aggregate(results, o, include_dspm, include_snapshot)
  /\ mainpc' = IF results = <<>> THEN "crashed" ELSE "done"
  /\ UNCHANGED <<regions, include_all_regions, include_dspm, include_snapshot,
                 all_available_regions, accounts, results, print_lock, tasks,
                 fpc, fin, fout>>

Next ==
  \/ Bootstrap
  \/ LoadCatalog
  \/ ListAccounts
  \/ Dispatch
  \/ \E t \in 1..Len(tasks) : TaskStart(t)
  \/ \E t \in 1..Len(tasks) : ResolveRegions(t)
  \/ \E t \in 1..Len(tasks) : AcquirePrintLock(t)
  \/ \E t \in 1..Len(tasks) : ReleasePrintLock(t)
  \/ \E t \in 1..Len(tasks) : Measure(t)
  \/ \E t \in 1..Len(tasks) : AppendResult(t)
  \/ Join
  \/ Aggregate

Spec == Init /\ [][Next]_vars

\* what the worker thread of task t can do next, the estimators apart
WorkerStep(t) ==
  \/ TaskStart(t)
  \/ ResolveRegions(t)
  \/ AcquirePrintLock(t)
  \/ ReleasePrintLock(t)
  \/ AppendResult(t)

\* task t is inside the estimators of lines 659-743
Measuring(t) == t \in 1..Len(tasks) /\ tasks[t].pc = "measure"

\* the same program where every external call returns and the threads are
\* scheduled fairly: a worker that can take a step takes one, and so does
\* the main thread waiting at the end of the `with ThreadPoolExecutor` block.
\* Measure(t) is enabled exactly when Measuring(t) holds and every Measure
\* step ends it, so []<>~Measuring(t) is WF_vars(Measure(t)).
SpecFair ==
  /\ Spec
  /\ \A t \in 1..MaxAccounts : WF_vars(t \in 1..Len(tasks) /\ WorkerStep(t))
  /\ \A t \in 1..MaxAccounts : []<>~Measuring(t)
  /\ WF_vars(Join)

(***************************************************************************)
(* The pool of run alone, on an account list longer than the pool is wide. *)
(* executor.map submits one call of calculate_costs per element of         *)
(* self.accounts; a task is started when a worker thread is free.  The     *)
(* tasks are told apart only while they wait: `queue` holds the positions  *)
(* of the accounts not started yet, `running` and `done` count the others. *)
(***************************************************************************)
MaxPoolAccounts == 22

InitPool ==
  /\ MainIdle
  /\ fpc = "call"
  /\ fin \in [fn : {"pool"}, accounts : {[i \in 1..n |-> i] : n \in 0..MaxPoolAccounts}]
  /\ fout = NoOutput

PoolStep(pc, pool) ==
  /\ fpc' = pc
  /\ fout' = pool
  /\ UNCHANGED <<fin, mainvars>>

\* line 780: executor.map(self.calculate_costs, self.accounts)
PoolSubmit ==
  /\ fin.fn = "pool"
  /\ fpc = "call"
  /\ PoolStep("pool", [submitted |-> fin.accounts, queue |-> fin.accounts,
                       running |-> 0, done |-> 0])

\* faulty variant: a task is started whether or not a worker is free
PoolStart_NoLimit ==
  /\ fin.fn = "pool"
  /\ fpc = "pool"
  /\ fout.queue # <<>>
  /\ PoolStep("pool", [fout EXCEPT !.queue = Tail(@), !.running = @ + 1])

\* line 779: one of the max_workers threads takes the next task
PoolStart ==
  /\ fin.fn = "pool"
  /\ fpc = "pool"
  /\ fout.queue # <<>>
  /\ fout.running < max_workers
  /\ PoolStep("pool", [fout EXCEPT !.queue = Tail(@), !.running = @ + 1])

\* calculate_costs returns or raises
PoolFinish ==
  /\ fin.fn = "pool"
  /\ fpc = "pool"
  /\ fout.running > 0
  /\ PoolStep("pool", [fout EXCEPT !.running = @ - 1, !.done = @ + 1])

\* line 780: the end of the `with` block
PoolJoin ==
  /\ fin.fn = "pool"
  /\ fpc = "pool"
  /\ fout.queue = <<>>
  /\ fout.running = 0
  /\ PoolStep("return", fout)

SpecPool == InitPool /\ [][PoolSubmit \/ PoolStart \/ PoolFinish \/ PoolJoin]_vars

(***************************************************************************)
(* estimate_s3_buckets on one oracle: the buckets list_buckets names, with *)
(* the answer of get_bucket_location and of the BucketSizeBytes metric for *)
(* each.                                                                   *)
(***************************************************************************)
MaxBuckets == 3

BucketAnswers ==
  [name : {"b"},
   loc : {[err |-> TRUE, value |-> ""], [err |-> FALSE, value |-> "None"],
          [err |-> FALSE, value |-> "ap-south-1"],
          [err |-> FALSE, value |-> "eu-west-1"]},
   size : {MetricRaises, [err |-> FALSE, points |-> <<>>],
           [err |-> FALSE, points |-> <<BytesPerGB>>],
           [err |-> FALSE, points |-> <<BytesPerGB \div 64>>]}]

BucketOracles ==
  [sess : {Denied, [ident |-> RootAccount, assume |-> Roles]},
   list : {[err |-> TRUE, buckets |-> <<>>]} \cup
          {[err |-> FALSE, buckets |-> q] : q \in SeqsUpTo(BucketAnswers, MaxBuckets)}]

InitS3 ==
  /\ MainIdle
  /\ fpc = "call"
  /\ fin \in [fn : {"estimate_s3_buckets"}, account_id : {"222"},
              region : {"us-east-1", "ap-south-1"}, o : BucketOracles]
  /\ fout = NoOutput

CallS3 ==
  /\ fin.fn = "estimate_s3_buckets"
  /\ Return(estimate_s3_buckets(fin.account_id, fin.region, fin.o, TRUE))

SpecS3 == InitS3 /\ [][CallS3]_vars

(***************************************************************************)
(* estimate_ec2_instances on one oracle: the instances describe_instances  *)
(* enumerates, with the answer of describe_images for each.                *)
(***************************************************************************)
MaxInstances == 3

ImageAnswers ==
  {[err |-> TRUE, found |-> FALSE, description |-> "", platform |-> ""],
   [err |-> FALSE, found |-> FALSE, description |-> "", platform |-> ""],
   [err |-> FALSE, found |-> TRUE, description |-> "Ubuntu Server", platform |-> ""],
   [err |-> FALSE, found |-> TRUE, description |-> "Microsoft Windows Server",
    platform |-> ""],
   [err |-> FALSE, found |-> TRUE, description |-> "", platform |-> "Windows"],
   [err |-> FALSE, found |-> TRUE, description |-> "FreeBSD", platform |-> ""]}

InstanceRecords ==
  [platform : {"", "Windows"}, image_id : {"ami-1"}, image : ImageAnswers]

InstanceOracles ==
  [sess : {Denied, [ident |-> RootAccount, assume |-> Roles]},
   list : {[err |-> TRUE, instances |-> <<>>]} \cup
          {[err |-> FALSE, instances |-> q] :
             q \in SeqsUpTo(InstanceRecords, MaxInstances)}]

InitEC2 ==
  /\ MainIdle
  /\ fpc = "call"
  /\ fin \in [fn : {"estimate_ec2_instances"}, account_id : {"222"},
              region : {"us-east-1"}, o : InstanceOracles,
              with_snapshot : BOOLEAN]
  /\ fout = NoOutput

CallEC2 ==
  /\ fin.fn = "estimate_ec2_instances"
  /\ Return(estimate_ec2_instances(fin.account_id, fin.region, fin.o,
                                   fin.with_snapshot))

SpecEC2 == InitEC2 /\ [][CallEC2]_vars

(***************************************************************************)
(* The cost arithmetic of calculate_costs on given usage figures.          *)
(***************************************************************************)
CostRegions ==
  {"us-east-1", "eu-west-1", "ca-central-1", "af-south-1", "ap-south-1",
   "me-south-1", "sa-east-1"}

CostEvents == {RInt(0), RInt(DefaultEvents), RInt(1234567), <<1520833, 2>>}

CostEgress == {RInt(DefaultEgressGB), RInt(100), <<47, 25>>}

CostS3 ==
  {S3Result(FALSE, 0, RInt(0), RInt(0), <<>>, <<>>),
   S3Result(FALSE, 2, <<1234, 100>>, <<617, 100>>, <<>>, <<>>),
   DefaultS3(<<>>, <<>>)}

CostEC2 ==
  {EC2Result(FALSE, 0, 0, 0, 0, <<>>, <<>>),
   EC2Result(FALSE, 2, 1, 1, 0, <<>>, <<>>),
   DefaultEC2(<<>>, <<>>)}

InitCost ==
  /\ MainIdle
  /\ fpc = "call"
  /\ fin \in [fn : {"costs"}, region : CostRegions, monthly_events : CostEvents,
              monthly_egress_gb : CostEgress, s3_data : CostS3,
              ec2_data : CostEC2, with_dspm : BOOLEAN, with_snapshot : BOOLEAN]
  /\ fout = NoOutput

CallCost ==
  /\ fin.fn = "costs"
  /\ Return([egress_rate |-> EgressRate(fin.region),
             row |-> BuildRow([id |-> RootAccount, name |-> "root"], fin.region,
                              fin.monthly_events, fin.monthly_egress_gb,
                              fin.s3_data, fin.ec2_data, fin.with_dspm,
                              fin.with_snapshot)])

SpecCost == InitCost /\ [][CallCost]_vars

(***************************************************************************)
(* The regions of one account: the constructor's choice of self.regions    *)
(* and calculate_costs' account_regions, on one oracle.                    *)
(***************************************************************************)
ScopeOracles ==
  [sess : RowSessions,
   describe : {[err |-> TRUE, regions |-> <<>>],
               [err |-> FALSE, regions |-> <<>>],
               [err |-> FALSE,
                regions |-> <<[name |-> "me-south-1", optin |-> "not-opted-in"]>>],
               [err |-> FALSE,
                regions |-> <<[name |-> "us-east-1", optin |-> "opt-in-not-required"],
                              [name |-> "me-south-1", optin |-> "not-opted-in"],
                              [name |-> "af-south-1", optin |-> "opted-in"]>>]},
   probes : SUBSET {"us-east-1", "ap-south-1", "us-east-2"}]

InitScope ==
  /\ MainIdle
  /\ fpc = "call"
  /\ fin \in [fn : {"account_regions"}, regions_arg : RegionArguments,
              all_regions : BOOLEAN, catalog : CatalogAnswers,
              account_id : {"111", "222"}, o : ScopeOracles]
  /\ fout = NoOutput

CallScope ==
  /\ fin.fn = "account_regions"
  /\ LET catalog == region_catalog(fin.catalog)
         self_regions == regions_to_analyze(fin.regions_arg, fin.all_regions, catalog)
         r == account_regions_of(fin.account_id, fin.all_regions, fin.o,
                                 self_regions, catalog)
     IN  Return([raised |-> r.raised, regions |-> r.regions, calls |-> r.calls,
                 sessions |-> r.sessions, self_regions |-> self_regions,
                 catalog |-> catalog])

SpecScope == InitScope /\ [][CallScope]_vars

(***************************************************************************)
(* Reading a trace of external calls.                                      *)
(***************************************************************************)
IsAssume(c) == c.op = "assume_role"

IsSts(c) == c.op \in {"assume_role", "get_caller_identity"}

NotSts(c) == ~IsSts(c)

\* the role names of the assume_role calls of a trace, in order
AssumeAttempts(calls) ==
  LET a == SelectSeq(calls, IsAssume)
  IN  [i \in 1..Len(a) |-> a[i].arg]

\* the calls of a trace past credential resolution, by name, in order
SourceNames(calls) ==
  LET a == SelectSeq(calls, NotSts)
  IN  [i \in 1..Len(a) |->
         IF a[i].op = "get_metric_statistics" THEN a[i].arg ELSE a[i].op]

Attempted(calls, name) ==
  \E i \in 1..Len(SourceNames(calls)) : SourceNames(calls)[i] = name

\* an estimator call has returned with a delegated or root scope
Granted ==
  /\ fpc = "return"
  /\ ~fout.raised
  /\ fout.sessions[1] \in {"base", "assumed"}

RowsOf(account_id, region) ==
  {j \in 1..Len(results) :
     results[j].account_id = account_id /\ results[j].region = region}

(***************************************************************************)
(* C1  Once every task is done, the results hold exactly one row for every *)
(* dispatched account and every region of the region list resolved for     *)
(* that account: no pair has two rows and no pair in scope has none.       *)
(***************************************************************************)
C1_OneRowPerPair ==
  mainpc = "aggregate" =>
    \A t \in 1..Len(tasks) : \A i \in 1..Len(tasks[t].account_regions) :
      Cardinality(RowsOf(tasks[t].account.id, tasks[t].account_regions[i])) = 1

(***************************************************************************)
(* C2  Only the failure to obtain the root session ends the program early: *)
(* past it no external call's failure escapes, neither from the            *)
(* constructor, nor from a task, nor from the aggregation (also over an    *)
(* empty result collection).                                               *)
(***************************************************************************)
C2_OnlyBootstrapFatal ==
  /\ mainpc # "crashed"
  /\ \A t \in 1..Len(tasks) : tasks[t].pc # "failed"

(***************************************************************************)
(* C10  The append of a row to the results is inside a critical section:   *)
(* the task at the append holds the lock, and no two tasks are at the      *)
(* append at once.                                                         *)
(***************************************************************************)
C10_AppendUnderLock ==
  \A t \in 1..Len(tasks) :
    tasks[t].pc = "append" =>
      /\ print_lock = t
      /\ \A u \in 1..Len(tasks) : tasks[u].pc = "append" => u = t

RECURSIVE Appended(_)
Appended(n) == IF n = 0 THEN 0 ELSE tasks[n].k + Appended(n - 1)

(***************************************************************************)
(* C10 (as amended)  The lock guards the console output only: a task holds *)
(* print_lock exactly while it is inside one of the print blocks, so at    *)
(* most one task is printing at a time.  The append comes after the lock   *)
(* is released, outside any critical section; it is a single list append,  *)
(* and every appended row is in the results.                               *)
(***************************************************************************)
C10_PrintExclusion ==
  /\ \A t \in 1..Len(tasks) :
       /\ tasks[t].pc \in {"announcing", "analyzing", "reporting"} <=> print_lock = t
       /\ tasks[t].pc = "append" => print_lock # t
  /\ print_lock \in 0..Len(tasks)
  /\ Len(results) = Appended(Len(tasks))

\* one task at the append while another one is printing under the lock
C10_Witness ==
  \E t \in 1..Len(tasks), u \in 1..Len(tasks) :
    /\ tasks[t].pc = "append"
    /\ tasks[u].pc = "reporting"
    /\ print_lock = u
    /\ Len(results) > 0

Finished(t) == tasks[t].pc \in {"done", "failed"}

(***************************************************************************)
(* C11  Full barrier: the results are read (frame built, CSV written,      *)
(* sums computed) only when every dispatched task has finished; what is    *)
(* written is the whole result collection, and no task is running or       *)
(* waiting to start while run() aggregates.                                *)
(***************************************************************************)
C11_FullBarrier ==
  /\ (mainpc \in {"aggregate", "done"} \/ report.written) =>
       \A t \in 1..Len(tasks) : Finished(t)
  /\ report.written => report.csv = results
  /\ mainpc \in {"bootstrap", "catalog", "organizations", "run", "pool",
                 "aggregate", "exit"} => ~report.written

\* two tasks have appended, and the summaries are out
C11_Witness ==
  /\ mainpc = "done"
  /\ report.written /\ ~report.crashed
  /\ Len(tasks) = 2
  /\ \A t \in 1..Len(tasks) : tasks[t].pc = "done" /\ tasks[t].k > 0
  /\ Len(report.csv) > 2

(***************************************************************************)
(* C12  Concurrent appends lose nothing and duplicate nothing: when the    *)
(* aggregation begins the results are as long as the number of appends     *)
(* made by all the tasks, and every appended row is there exactly once.    *)
(***************************************************************************)
C12_NoLostAppend ==
  mainpc = "aggregate" =>
    /\ Len(results) = Appended(Len(tasks))
    /\ \A t \in 1..Len(tasks) : \A i \in 1..tasks[t].k :
         Cardinality(RowsOf(tasks[t].account.id, tasks[t].account_regions[i])) = 1

\* the rows of two tasks alternate in the results
C12_Witness ==
  /\ mainpc = "aggregate"
  /\ Len(tasks) = 2
  /\ Len(results) = 4
  /\ results[1].account_id # results[2].account_id
  /\ results[2].account_id # results[3].account_id

C4_ErrorAdvances ==
  (fin.fn = "estimate_cloudtrail_events" /\ Granted) =>
    /\ fin.o.t1.err => Attempted(fout.calls, "CallCount")
    /\ (Attempted(fout.calls, "CallCount") /\ fin.o.t2.err) =>
         Attempted(fout.calls, "describe_instances")
    /\ fout.tier = 4 =>
         /\ fout.value = <<1000000, 1>>
         /\ Attempted(fout.calls, "Events")
         /\ Attempted(fout.calls, "CallCount")
         /\ Attempted(fout.calls, "describe_instances")

(***************************************************************************)
(* C5  For an account other than the caller's the broker tries             *)
(* OrganizationAccountAccessRole, AWSControlTowerExecution,                *)
(* OrganizationAccountAccess in that order, returns the scope of the first *)
(* role that can be assumed, tries nothing after a success, and returns    *)
(* no scope only after all three failed.                                   *)
(***************************************************************************)
C5_RoleFallback ==
  (/\ fin.fn = "_get_account_session"
   /\ fpc = "return"
   /\ fin.o.ident # "raise"
   /\ fin.account_id # fin.o.ident) =>
    LET order == <<"OrganizationAccountAccessRole", "AWSControlTowerExecution",
                   "OrganizationAccountAccess">>
        tried == AssumeAttempts(fout.calls)
        ok(i) == order[i] \in fin.o.assume
    IN  /\ ~fout.raised
        /\ Len(tried) \in 1..3
        /\ tried = SubSeq(order, 1, Len(tried))
        /\ \A i \in 1..(Len(tried) - 1) : ~ok(i)
        /\ IF \E i \in 1..3 : ok(i)
           THEN /\ ok(Len(tried))
                /\ fout.session = [kind |-> "assumed", role |-> order[Len(tried)]]
           ELSE /\ Len(tried) = 3
                /\ fout.session.kind = "none"

\* the primary role fails, the second succeeds, the third would succeed too
C5_Witness ==
  /\ fin.fn = "_get_account_session"
  /\ fpc = "return"
  /\ fin.account_id = "222" /\ fin.o.ident = "111"
  /\ fin.o.assume = {"AWSControlTowerExecution", "OrganizationAccountAccess"}
  /\ fout.session = [kind |-> "assumed", role |-> "AWSControlTowerExecution"]
  /\ AssumeAttempts(fout.calls)
       = <<"OrganizationAccountAccessRole", "AWSControlTowerExecution">>

(***************************************************************************)
(* C8  Egress has two levels: Tier 1 with data gives the daily average     *)
(* x 30 in GB; whenever Tier 1 gives no usable data (empty or raising)     *)
(* Tier 2 gives the event estimate x 1.5 KB in GB; the default of 5 GB is  *)
(* returned only when the access scope failed or both tiers raised.        *)
(***************************************************************************)
KBtoGB(x) == RDiv(RDiv(x, RInt(1024)), RInt(1024))

BytesToGB(x) == KBtoGB(RDiv(x, RInt(1024)))

DailyAverage(points) == RDiv(RInt(SumSeq(points)), RInt(Len(points)))

NoRoleAssumable(sess, account_id) ==
  sess.ident \notin {"raise", account_id} /\ sess.assume = {}

AuthFailureEverywhere ==
  /\ fin.fn = "calculate_costs"
  /\ NoRoleAssumable(fin.o.events.sess, fin.account.id)
  /\ NoRoleAssumable(fin.o.egress.sess, fin.account.id)
  /\ fin.with_dspm => NoRoleAssumable(fin.o.s3.sess, fin.account.id)
  /\ fin.with_snapshot => NoRoleAssumable(fin.o.ec2.sess, fin.account.id)

C6_AuthFailureDefaults ==
  (fpc = "return" /\ AuthFailureEverywhere) =>
    /\ ~fout.raised
    /\ \A i \in 1..Len(fout.sessions) : fout.sessions[i] = "none"
    /\ fout.row.account_id = fin.account.id
    /\ fout.row.monthly_events = DefaultEvents
    /\ SourceNames(fout.events.calls) = <<>>
    /\ fout.row.monthly_egress_gb = RInt(DefaultEgressGB)
    /\ SourceNames(fout.egress.calls) = <<>>
    /\ fin.with_dspm =>
         /\ fout.s3_data.count = 10
         /\ fout.s3_data.total_size_gb = RInt(500)
         /\ fout.s3_data.avg_size_gb = RInt(50)
         /\ fout.row.s3_bucket_count = 10
         /\ fout.row.s3_storage_gb = RInt(500)
    /\ fin.with_snapshot =>
         /\ fout.ec2_data.total = 20
         /\ fout.ec2_data.linux = 14
         /\ fout.ec2_data.windows = 5
         /\ fout.ec2_data.other = 1
         /\ fout.row.ec2_instance_count = 20
         /\ fout.row.linux_instance_count = 14

\* an account without any assumable role whose sources all hold data
C6_Witness ==
  /\ fpc = "return"
  /\ AuthFailureEverywhere
  /\ fin.account.id = "222"
  /\ fin.with_dspm /\ fin.with_snapshot
  /\ HasData(fin.o.events.t1) /\ HasData(fin.o.egress.t1)
  /\ ~fin.o.s3.list.err /\ ~fin.o.ec2.list.err
  /\ fout.row.monthly_events = DefaultEvents
  /\ fout.row.s3_bucket_count = 10

(***************************************************************************)
(* C7  Once credential resolution for an account has returned no scope, no *)
(* later role assumption is attempted for that account.                    *)
(***************************************************************************)
AuthFailureAt(calls, i) ==
  /\ IsAssume(calls[i])
  /\ calls[i].arg = AlternativeRoles[Len(AlternativeRoles)]
  /\ calls[i].out = "error"

C7_FailurePermanent ==
  fpc = "return" /\ fin.fn = "calculate_costs" =>
    \A i \in 1..Len(fout.calls) : \A j \in (i + 1)..Len(fout.calls) :
      AuthFailureAt(fout.calls, i) => ~IsAssume(fout.calls[j])

\* the credential calls of a trace, in order
StsCalls(calls) == SelectSeq(calls, IsSts)

\* the role attempted before `role` inside one resolution
RoleBefore(role) ==
  IF role = AlternativeRoles[1] THEN PrimaryRole
  ELSE AlternativeRoles[(CHOOSE k \in 2..Len(AlternativeRoles) :
                           AlternativeRoles[k] = role) - 1]

(***************************************************************************)
(* C7 (as amended)  Nothing is remembered between credential resolutions:  *)
(* every estimator call resolves again, and every resolution for an        *)
(* account other than the caller's attempts the primary role first, then   *)
(* the alternatives in their order until one succeeds.  Inside one         *)
(* resolution no role is attempted twice and nothing is attempted after a  *)
(* success or after the last alternative failed.                           *)
(***************************************************************************)
C7_NoMemory ==
  fpc = "return" /\ fin.fn = "calculate_costs" =>
    LET c == StsCalls(fout.calls)
        resolutions == {i \in 1..Len(c) : c[i].op = "get_caller_identity"}
    IN  /\ Cardinality(resolutions) = Len(fout.sessions)
        /\ \A i \in 1..Len(c) :
             IF c[i].op = "get_caller_identity"
             THEN (c[i].out = "ok" /\ fin.account.id # RootAccount) =>
                     /\ i < Len(c)
                     /\ IsAssume(c[i + 1]) /\ c[i + 1].arg = PrimaryRole
             ELSE /\ i > 1
                  /\ IF c[i].arg = PrimaryRole
                     THEN c[i - 1].op = "get_caller_identity"
                     ELSE /\ IsAssume(c[i - 1])
                          /\ c[i - 1].arg = RoleBefore(c[i].arg)
                          /\ c[i - 1].out = "error"
                  /\ (c[i].out = "ok" /\ i < Len(c)) =>
                       c[i + 1].op = "get_caller_identity"
                  /\ (AuthFailureAt(c, i) /\ i < Len(c)) =>
                       c[i + 1].op = "get_caller_identity"

\* a resolution that ended without scope, and a later one that assumed a role
C7_Witness ==
  /\ fpc = "return"
  /\ fin.fn = "calculate_costs"
  /\ ~fout.raised
  /\ \E i \in 1..Len(fout.sessions) : \E j \in (i + 1)..Len(fout.sessions) :
       fout.sessions[i] = "none" /\ fout.sessions[j] = "assumed"

(***************************************************************************)
(* C9  One account, one region charged 0.09 per GB, DSPM and snapshot      *)
(* scanning off, every metrics source unavailable (no datapoints, or an    *)
(* error): the row has 1,000,000 events, 5 GB of egress, 1.00 for event    *)
(* delivery, 0.45 for egress, 0.10 of overhead, 1.55 in total.             *)
(***************************************************************************)
EventsUnavailable(o) ==
  /\ ~HasData(o.t1)
  /\ ~HasData(o.t2)
  /\ o.ec2.err \/ o.users.err \/ o.roles.err

Scenario ==
  /\ fpc = "return"
  /\ fin.fn = "calculate_costs"
  /\ ~fout.raised
  /\ EgressRate(fin.region) = <<9, 100>>
  /\ ~fin.with_dspm /\ ~fin.with_snapshot
  /\ EventsUnavailable(fin.o.events)
  /\ EventsUnavailable(fin.o.egress.events)

ExplicitOrDefault(regions_arg) ==
  IF regions_arg = <<>> THEN <<"us-east-1">> ELSE regions_arg

Discovering ==
  /\ fpc = "return"
  /\ fin.fn = "account_regions"
  /\ fin.all_regions
  /\ ~fout.raised

(***************************************************************************)
(* C13  With --all-regions, an account whose credentials cannot be         *)
(* resolved gets the explicit/default region list (the list given on the   *)
(* command line, or us-east-1 alone when none was given), and no region    *)
(* discovery call is made for it.                                          *)
(***************************************************************************)
C13_AuthFailureRegions ==
  (Discovering /\ fout.sessions = <<"none">>) =>
    /\ fout.regions = ExplicitOrDefault(fin.regions_arg)
    /\ SourceNames(fout.calls) = <<>>

\* the names of the regions of a describe_regions answer that are opted in
RECURSIVE NotOptedOut(_)
NotOptedOut(described) ==
  IF described = <<>> THEN <<>>
  ELSE (IF Head(described).optin = "not-opted-in" THEN <<>>
        ELSE <<Head(described).name>>) \o NotOptedOut(Tail(described))

\* the regions of the catalog whose probe succeeds, in catalog order
RECURSIVE Probed(_, _)
Probed(catalog, ok) ==
  IF catalog = <<>> THEN <<>>
  ELSE (IF Head(catalog) \in ok THEN <<Head(catalog)>> ELSE <<>>)
       \o Probed(Tail(catalog), ok)

ProbeNames(calls) ==
  LET a == SelectSeq(calls, LAMBDA c : c.op = "describe_vpcs")
  IN  [i \in 1..Len(a) |-> a[i].arg]

(***************************************************************************)
(* C14  With --all-regions and access granted: when describe_regions       *)
(* succeeds the result is the regions it returned that are not             *)
(* not-opted-in, and no region is probed; when it fails every region of    *)
(* the catalog is probed, a region is in the result iff its probe          *)
(* succeeds, and when no probe succeeds the result is the explicit/default *)
(* region list.                                                            *)
(***************************************************************************)
C14_Discovery ==
  (Discovering /\ fout.sessions[1] \in {"base", "assumed"}) =>
    IF ~fin.o.describe.err
    THEN /\ fout.regions = NotOptedOut(fin.o.describe.regions)
         /\ ProbeNames(fout.calls) = <<>>
    ELSE /\ ProbeNames(fout.calls) = fout.catalog
         /\ IF Probed(fout.catalog, fin.o.probes) # <<>>
            THEN fout.regions = Probed(fout.catalog, fin.o.probes)
            ELSE fout.regions = ExplicitOrDefault(fin.regions_arg)

(***************************************************************************)
(* C15  Without --all-regions every account gets the region list given on  *)
(* the command line, same regions in the same order (us-east-1 alone when  *)
(* none was given), with no remote call and no credential resolution.      *)
(***************************************************************************)
C15_ExplicitVerbatim ==
  (fpc = "return" /\ fin.fn = "account_regions" /\ ~fin.all_regions) =>
    /\ ~fout.raised
    /\ fout.regions = ExplicitOrDefault(fin.regions_arg)
    /\ fout.calls = <<>>
    /\ fout.sessions = <<>>

\* two regions asked for, for an account whose identity lookup would raise
C15_Witness ==
  /\ fpc = "return"
  /\ fin.fn = "account_regions"
  /\ ~fin.all_regions
  /\ Len(fin.regions_arg) = 2
  /\ fin.o.sess.ident = "raise"
  /\ fout.regions = fin.regions_arg

Costed == fpc = "return" /\ fin.fn = "costs"

\* the six stored cost components of a row, added up
StoredSum(row) ==
  ColumnSum(<<row.eventbridge_cost, row.data_egress_cost, row.lambda_cost,
              row.cloudtrail_cost, row.dspm_cost, row.snapshot_cost>>)

\* the rate the region prefix stands for
RateOf(region) ==
  IF SubSeq(region, 1, 3) = "sa-" THEN <<12, 100>>
  ELSE IF SubSeq(region, 1, 3) \in {"ap-", "me-"} THEN <<11, 100>>
  ELSE <<9, 100>>

\* the six costs of the input as one closed form, nothing rounded:
\* events / 1e6 + GB * rate + 0.10 + 0 + (9.24 + 0.045 * S3 GB)
\* + Linux instances * (0.17 + 100 * 0.05 / 30)
ClosedFormTotal ==
  LET scan == IF fin.with_dspm /\ fin.s3_data.count > 0
              THEN RAdd(<<924, 100>>, RMul(<<45, 1000>>, fin.s3_data.total_size_gb))
              ELSE RInt(0)
      snap == IF fin.with_snapshot
              THEN RMul(RInt(fin.ec2_data.linux), <<101, 300>>)
              ELSE RInt(0)
  IN  ColumnSum(<<RDiv(fin.monthly_events, RInt(1000000)),
                  RMul(fin.monthly_egress_gb, RateOf(fin.region)),
                  <<1, 10>>, scan, snap>>)

RAbsDiff(x, y) == IF RLess(x, y) THEN RAdd(y, <<-x[1], x[2]>>) ELSE RAdd(x, <<-y[1], y[2]>>)

(***************************************************************************)
(* C16  In every row the total is exactly the sum of the row's six cost    *)
(* components, none of them rounded before the summation, and the stored   *)
(* total never differs from the sum of the stored components.              *)
(***************************************************************************)
C16_TotalIsStoredSum ==
  Costed =>
    /\ fout.row.total_cost = Round2(ClosedFormTotal)
    /\ fout.row.total_cost = StoredSum(fout.row)

(***************************************************************************)
(* C16 amended  The stored total is the sum of the six unrounded           *)
(* components, rounded once to cents; each stored component is rounded to  *)
(* cents on its own, so the stored total can differ from the sum of the    *)
(* stored components, by at most 0.02.                                     *)
(***************************************************************************)
C16_TotalRoundedOnce ==
  Costed =>
    /\ fout.row.total_cost = Round2(ClosedFormTotal)
    /\ ~RLess(<<2, 100>>, RAbsDiff(fout.row.total_cost, StoredSum(fout.row)))

\* a row whose stored total is one cent away from the sum of its stored costs
C16_Witness ==
  /\ Costed
  /\ fout.row.total_cost # StoredSum(fout.row)
  /\ fout.row.total_cost = Round2(ClosedFormTotal)

(***************************************************************************)
(* C17  The egress rate of a region is 0.12 when its identifier starts     *)
(* with "sa-", 0.11 when it starts with "ap-" or "me-", 0.09 otherwise,    *)
(* and the egress cost is the monthly egress in GB times that rate.        *)
(***************************************************************************)
C17_EgressRate ==
  Costed =>
    /\ fout.egress_rate = RateOf(fin.region)
    /\ fout.row.data_egress_cost =
         Round2(RMul(fin.monthly_egress_gb, RateOf(fin.region)))

\* 100 GB out of a Middle East region cost 11.00
C17_Witness ==
  /\ Costed
  /\ fin.region = "me-south-1"
  /\ fin.monthly_egress_gb = RInt(100)
  /\ fout.row.data_egress_cost = RInt(11)

(***************************************************************************)
(* C18  When the requested account is the account of the root session,     *)
(* the broker returns the root session itself and attempts no role         *)
(* assumption.                                                             *)
(***************************************************************************)
C18_RootScopeDirect ==
  (fpc = "return" /\ fin.fn = "_get_account_session"
     /\ fin.o.ident = fin.account_id) =>
    /\ ~fout.raised
    /\ fout.session = BaseSession
    /\ AssumeAttempts(fout.calls) = <<>>
    /\ Len(fout.calls) = 1

\* the root account is asked for while every role could be assumed
C18_Witness ==
  /\ fpc = "return"
  /\ fin.fn = "_get_account_session"
  /\ fin.o.ident = fin.account_id
  /\ fin.o.assume = Roles
  /\ fout.session = BaseSession

Aggregated == fin.fn = "aggregate" /\ fpc \in {"return", "again"}

\* the accounts that have a row in the collection
AccountsIn(rows) == {rows[i].account_id : i \in 1..Len(rows)}

\* the group the tags of an account stand for: the value of the first tag
\* whose key is businessunit, business-unit or bu in any letter case
GroupOf(answer) ==
  LET hits == {i \in 1..Len(answer.tags) :
                 Lower(answer.tags[i].Key) \in {"businessunit", "business-unit", "bu"}}
  IN  IF answer.err \/ hits = {} THEN "Untagged"
      ELSE answer.tags[CHOOSE i \in hits : \A j \in hits : i <= j].Value

\* the total costs of the rows whose account is in the group, added up
GroupTotal(rows, groups, group) ==
  LET in_group == {i \in 1..Len(rows) : groups[rows[i].account_id] = group}
  IN  ColumnSum(TotalCosts(SubsetRows(rows, in_group)))

(***************************************************************************)
(* C19  In the business-unit aggregation every account with a row gets     *)
(* exactly one group: the value of its recognized tag when the lookup      *)
(* succeeds and such a tag exists, "Untagged" otherwise; a failed lookup    *)
(* puts that account under "Untagged", the summary is still generated and  *)
(* the group of every other account is what its own tags say.              *)
(***************************************************************************)
C19_OneGroupPerAccount ==
  Aggregated =>
    LET bu == fout.first.business_units
        groups == [a \in AccountsIn(fin.rows) |-> GroupOf(fin.o[a])]
    IN  /\ bu.generated
        /\ bu.account_tags = groups
        /\ DOMAIN bu.bu_summary = {groups[a] : a \in DOMAIN groups}
        /\ \A g \in DOMAIN bu.bu_summary :
             bu.bu_summary[g] = GroupTotal(fin.rows, groups, g)
        /\ Len(bu.calls) = Cardinality(DOMAIN groups)

\* the first account's lookup fails, the second account is grouped by its tag
C19_Witness ==
  /\ Aggregated
  /\ Len(fin.rows) = 3
  /\ fin.rows[1].account_id = "111"
  /\ fin.o["111"].err
  /\ ~fin.o["222"].err
  /\ fout.first.business_units.generated
  /\ fout.first.business_units.account_tags =
       ("111" :> "Untagged") @@ ("222" :> "Core")

\* the values of a summary, added up
RECURSIVE SummaryTotal(_)
SummaryTotal(summary) ==
  IF DOMAIN summary = {} THEN RInt(0)
  ELSE LET k == CHOOSE x \in DOMAIN summary : TRUE
       IN  RAdd(summary[k],
                SummaryTotal([x \in DOMAIN summary \ {k} |-> summary[x]]))

Pooled == fin.fn = "pool" /\ fpc \in {"pool", "return"}

(***************************************************************************)
(* C21  One task is dispatched per account of the account list, and at     *)
(* every moment at most 20 account tasks are executing.                    *)
(***************************************************************************)
C21_OneTaskPerAccountAtMost20 ==
  Pooled =>
    /\ fout.submitted = fin.accounts
    /\ Len(fout.queue) + fout.running + fout.done = Len(fin.accounts)
    /\ fout.running <= 20

\* 22 accounts: 20 tasks are executing and two wait for a worker
C21_Witness ==
  /\ Pooled
  /\ Len(fin.accounts) = 22
  /\ fout.running = 20
  /\ Len(fout.queue) = 2

\* the listed buckets whose location was read and is the region
Retained(buckets, region) ==
  SelectSeq(buckets,
            LAMBDA b : /\ ~b.loc.err
                       /\ \/ b.loc.value = region
                          \/ (b.loc.value = "None" /\ region = "us-east-1"))

\* the sizes in GB of the buckets that have a size metric
SizesGB(buckets) ==
  LET sized == SelectSeq(buckets, LAMBDA b : ~b.size.err /\ b.size.points # <<>>)
  IN  [i \in 1..Len(sized) |-> RDiv(RInt(sized[i].size.points[1]), RInt(1073741824))]

Inventoried ==
  /\ fpc = "return"
  /\ fin.fn = "estimate_s3_buckets"
  /\ fout.sessions = <<"assumed">>
  /\ ~fin.o.list.err

(***************************************************************************)
(* C22  Storage inventory with access granted: the count is the number of  *)
(* listed buckets whose location lookup succeeds and equals the region; if *)
(* a retained bucket has a size metric, avg is the mean size of the sized  *)
(* buckets and total = avg x count; if none is sized, total = 50 GB x      *)
(* count; with access failed the inventory is 10 buckets of 50 GB.         *)
(***************************************************************************)
C22_StorageInventory ==
  /\ Inventoried =>
       LET kept == Retained(fin.o.list.buckets, fin.region)
           sizes == SizesGB(kept)
       IN  /\ fout.count = Len(kept)
           /\ sizes # <<>> =>
                /\ RMul(fout.avg_size_gb, RInt(Len(sizes))) = ColumnSum(sizes)
                /\ fout.total_size_gb = RMul(fout.avg_size_gb, RInt(Len(kept)))
           /\ sizes = <<>> => fout.total_size_gb = RInt(50 * Len(kept))
  /\ (fpc = "return" /\ fin.fn = "estimate_s3_buckets" /\ fout.sessions = <<"none">>) =>
       /\ fout.count = 10
       /\ fout.total_size_gb = RInt(500)
       /\ fout.avg_size_gb = RInt(50)

(***************************************************************************)
(* C22 amended  As C22, with the mean and the total each rounded to two    *)
(* decimals: avg is the rounded mean of the sized buckets, total is the    *)
(* unrounded mean x count, rounded; the default inventory is also the      *)
(* answer when the bucket listing itself fails.                            *)
(***************************************************************************)
C22_StorageInventoryRounded ==
  /\ Inventoried =>
       LET kept == Retained(fin.o.list.buckets, fin.region)
           sizes == SizesGB(kept)
           mean == RDiv(ColumnSum(sizes), RInt(Len(sizes)))
       IN  /\ fout.count = Len(kept)
           /\ sizes # <<>> =>
                /\ fout.avg_size_gb = Round2(mean)
                /\ fout.total_size_gb = Round2(RMul(mean, RInt(Len(kept))))
           /\ sizes = <<>> =>
                /\ fout.avg_size_gb = RInt(50)
                /\ fout.total_size_gb = RInt(50 * Len(kept))
  /\ (/\ fpc = "return"
      /\ fin.fn = "estimate_s3_buckets"
      /\ (fout.sessions = <<"none">> \/ fin.o.list.err)) =>
       /\ fout.count = 10
       /\ fout.total_size_gb = RInt(500)
       /\ fout.avg_size_gb = RInt(50)

\* three buckets listed, one dropped for its unreadable location, one of
\* the two kept is sized
C22_Witness ==
  /\ Inventoried
  /\ Len(fin.o.list.buckets) = 3
  /\ fin.o.list.buckets[1].loc.err
  /\ fout.count = 2
  /\ Len(SizesGB(Retained(fin.o.list.buckets, fin.region))) = 1
  /\ fout.total_size_gb = RInt(2)

\* what the claim makes of one instance: the platform tag first, then the
\* image; Linux when the image says nothing or cannot be looked up
ClassOf(instance) ==
  IF instance.platform = "Windows" THEN "windows"
  ELSE IF instance.image.err \/ ~instance.image.found THEN "linux"
  ELSE IF instance.image.description = "Microsoft Windows Server" THEN "windows"
  ELSE IF instance.image.platform = "Windows" THEN "windows"
  ELSE "linux"

InClass(instances, class) ==
  Cardinality({i \in 1..Len(instances) : ClassOf(instances[i]) = class})

Enumerated ==
  /\ fpc = "return"
  /\ fin.fn = "estimate_ec2_instances"
  /\ fout.sessions = <<"assumed">>
  /\ ~fin.o.list.err

(***************************************************************************)
(* C23  Compute inventory with access granted: every enumerated instance   *)
(* is counted in exactly one of Linux, Windows, Other; the platform tag    *)
(* decides first, then the image description or platform; an instance      *)
(* whose image says nothing, or whose image lookup fails, counts as Linux. *)
(* With access failed the inventory is 20 total, 14 Linux, 5 Windows,      *)
(* 1 Other.                                                                *)
(***************************************************************************)
C23_ComputeInventory ==
  /\ Enumerated =>
       /\ fout.total = Len(fin.o.list.instances)
       /\ fout.linux + fout.windows + fout.other = fout.total
       /\ fout.windows = InClass(fin.o.list.instances, "windows")
       /\ fout.linux = InClass(fin.o.list.instances, "linux")
       /\ Cardinality({i \in 1..Len(fout.calls) : fout.calls[i].op = "describe_images"})
            = Cardinality({i \in 1..Len(fin.o.list.instances) :
                             fin.o.list.instances[i].platform # "Windows"})
  /\ (fpc = "return" /\ fin.fn = "estimate_ec2_instances" /\ fout.sessions = <<"none">>) =>
       /\ fout.total = 20
       /\ fout.linux = 14
       /\ fout.windows = 5
       /\ fout.other = 1

\* three instances: one tagged Windows, one whose image lookup fails, one
\* with an image that names no known system
C23_Witness ==
  /\ Enumerated
  /\ Len(fin.o.list.instances) = 3
  /\ fin.o.list.instances[1].platform = "Windows"
  /\ fin.o.list.instances[2].platform = "" /\ fin.o.list.instances[2].image.err
  /\ fin.o.list.instances[3].platform = ""
  /\ fin.o.list.instances[3].image.description = "FreeBSD"
  /\ fout.linux = 2
  /\ fout.windows = 1

\* the regions of the rows of an account, in the order of the rows
RegionsOfRows(account_id) ==
  LET rows == SelectSeq(results, LAMBDA row : row.account_id = account_id)
  IN  [i \in 1..Len(rows) |-> rows[i].region]

(***************************************************************************)
(* C24  The regions of an account are processed one after the other in the *)
(* order the scope resolver returned them: at every moment the rows of an  *)
(* account are in the results in that order, wherever the rows of the      *)
(* other accounts fall between them.                                       *)
(***************************************************************************)
C24_RegionOrder ==
  \A t \in 1..Len(tasks) :
    /\ RegionsOfRows(tasks[t].account.id) =
         SubSeq(tasks[t].account_regions, 1, tasks[t].k)
    /\ tasks[t].pc \in {"analyze", "analyzing", "measure", "report", "reporting",
                        "append"} => tasks[t].k < Len(tasks[t].account_regions)

\* two rows of one account in resolver order, a row of the other between them
C24_Witness ==
  /\ Len(results) = 3
  /\ results[1].account_id = results[3].account_id
  /\ results[2].account_id # results[1].account_id
  /\ \E t \in 1..Len(tasks) :
       /\ tasks[t].account.id = results[1].account_id
       /\ tasks[t].account_regions = <<results[1].region, results[3].region>>
       /\ results[1].region # results[3].region

(***************************************************************************)
(* C25  The result collection is append-only: every step of a worker or of *)
(* the aggregation leaves it as it is or adds one row at its end; no row   *)
(* is removed, moved or changed, and the business-unit tagging of the      *)
(* aggregation leaves the collected rows alone.                            *)
(***************************************************************************)
C25_AppendOnly ==
  [][\/ results' = results
     \/ /\ Len(results') = Len(results) + 1
        /\ SubSeq(results', 1, Len(results)) = results]_vars

\* the business units were summed over three collected rows
C25_Witness ==
  /\ mainpc = "done"
  /\ Len(results) = 3
  /\ report.business_units.generated
  /\ report.csv = results

RowBuilt == fpc = "return" /\ fin.fn = "calculate_costs" /\ ~fout.raised

\* the calls of a trace made to one of the named operations or metrics
CallsTo(calls, names) ==
  SelectSeq(calls, LAMBDA c : c.op \in names \/ (c.op = "get_metric_statistics" /\ c.arg \in names))

(***************************************************************************)
(* C26  A scan that is switched off is not measured and costs nothing:     *)
(* without DSPM no bucket is listed, located or sized, the row has 0       *)
(* buckets, 0 GB and a DSPM cost of 0; without snapshots the instance      *)
(* inventory is not taken, the row has 0 instances and a snapshot cost of  *)
(* 0.  With the scan on, the DSPM cost is 0 when the bucket count is 0 and *)
(* the snapshot cost is 0 when the Linux count is 0.                       *)
(***************************************************************************)
C26_DisabledScanMeasuresNothing ==
  RowBuilt =>
    /\ ~fin.with_dspm =>
         /\ CallsTo(fout.calls, {"list_buckets", "get_bucket_location", "BucketSizeBytes"}) = <<>>
         /\ fout.s3_data.sessions = <<>>
         /\ fout.row.s3_bucket_count = 0
         /\ fout.row.s3_storage_gb = RInt(0)
         /\ fout.row.dspm_cost = RInt(0)
    /\ ~fin.with_snapshot =>
         /\ fout.ec2_data.calls = <<>>
         /\ fout.ec2_data.sessions = <<>>
         /\ CallsTo(fout.calls, {"describe_images"}) = <<>>
         /\ fout.row.ec2_instance_count = 0
         /\ fout.row.linux_instance_count = 0
         /\ fout.row.snapshot_cost = RInt(0)
    /\ fout.row.s3_bucket_count = 0 => fout.row.dspm_cost = RInt(0)
    /\ fout.row.linux_instance_count = 0 => fout.row.snapshot_cost = RInt(0)
    /\ (fin.with_dspm /\ fout.row.s3_bucket_count > 0) => fout.row.dspm_cost # RInt(0)
    /\ (fin.with_snapshot /\ fout.row.linux_instance_count > 0) =>
         fout.row.snapshot_cost # RInt(0)

\* DSPM off, snapshots on for an account whose only instance runs Windows
C26_Witness ==
  /\ RowBuilt
  /\ ~fin.with_dspm
  /\ fin.with_snapshot
  /\ CallsTo(fout.calls, {"describe_images"}) = <<>>
  /\ fout.ec2_data.calls # <<>>
  /\ fout.row.s3_bucket_count = 0
  /\ fout.row.ec2_instance_count = 1
  /\ fout.row.linux_instance_count = 0
  /\ fout.row.dspm_cost = RInt(0)
  /\ fout.row.snapshot_cost = RInt(0)

\* what _get_account_session makes of one answer of STS
OutcomeOf(account_id, sess) ==
  IF sess.ident = account_id THEN "base"
  ELSE IF sess.assume = {} THEN "none"
  ELSE "assumed"

IdentityCalls(calls) == SelectSeq(calls, LAMBDA c : c.op = "get_caller_identity")

(***************************************************************************)
(* C27  All metrics of a row are computed under one credential outcome:    *)
(* no row has one metric measured with access granted and another at its   *)
(* AuthFailure default, access being resolved once per (account, region).  *)
(***************************************************************************)
C27_OneOutcomePerRow ==
  RowBuilt =>
    /\ \A i, j \in 1..Len(fout.sessions) :
         (fout.sessions[i] = "none") = (fout.sessions[j] = "none")
    /\ Len(IdentityCalls(fout.calls)) = 1

(***************************************************************************)
(* C27 amended  Every estimator of a row resolves the credentials of the   *)
(* account by itself: a row takes between two and five resolutions (event  *)
(* volume, egress, the event estimate inside egress, each enabled scan),   *)
(* and each metric follows the outcome of its own resolution, so a row can *)
(* hold a measured metric next to the AuthFailure default of another.      *)
(***************************************************************************)
C27_OutcomePerMetric ==
  RowBuilt =>
    LET a == fin.account.id
        o == fin.o
    IN  /\ Len(IdentityCalls(fout.calls)) = Len(fout.sessions)
        /\ Len(fout.sessions) \in 2..5
        /\ fout.events.sessions = <<OutcomeOf(a, o.events.sess)>>
        /\ fout.egress.sessions[1] = OutcomeOf(a, o.egress.sess)
        /\ Len(fout.egress.sessions) = 2 =>
             fout.egress.sessions[2] = OutcomeOf(a, o.egress.events.sess)
        /\ fin.with_dspm => fout.s3_data.sessions = <<OutcomeOf(a, o.s3.sess)>>
        /\ fin.with_snapshot => fout.ec2_data.sessions = <<OutcomeOf(a, o.ec2.sess)>>
        /\ OutcomeOf(a, o.events.sess) = "none" => fout.events.value = RInt(1000000)
        /\ OutcomeOf(a, o.egress.sess) = "none" => fout.egress.value = RInt(5)

\* the events were measured with an assumed role, egress is the default of
\* an account that could not be reached
C27_Witness ==
  /\ RowBuilt
  /\ fout.events.sessions = <<"assumed">>
  /\ fout.events.tier = 1
  /\ fout.egress.sessions = <<"none">>
  /\ fout.row.monthly_events = 600000
  /\ fout.row.monthly_egress_gb = RInt(5)

(***************************************************************************)
(* C28  In every row whose egress came from Tier 2, monthly_egress_gb is   *)
(* the row's own monthly_events x 1.5 KB in GB: the event estimate made    *)
(* inside the egress estimator is the value stored as the row's events.    *)
(***************************************************************************)
C28_EgressFromRowEvents ==
  (RowBuilt /\ fout.egress.tier = 2) =>
    /\ fout.egress.events.value = fout.events.value
    /\ fout.row.monthly_egress_gb =
         Round2(KBtoGB(RMul(fout.events.value, <<3, 2>>)))

(***************************************************************************)
(* C28 amended  In every row whose egress came from Tier 2,                *)
(* monthly_egress_gb is 1.5 KB x the event estimate of the second          *)
(* evaluation of the waterfall, made inside the egress estimator with its  *)
(* own credential resolution and its own queries; it is the row's          *)
(* monthly_events x 1.5 KB only when both evaluations give the same        *)
(* estimate.                                                               *)
(***************************************************************************)
C28_EgressFromSecondEstimate ==
  (RowBuilt /\ fout.egress.tier = 2) =>
    LET first == estimate_cloudtrail_events(fin.account.id, fin.region, fin.o.events)
        second == estimate_cloudtrail_events(fin.account.id, fin.region,
                                             fin.o.egress.events)
    IN  /\ fout.row.monthly_events = RTrunc(first.value)
        /\ fout.row.monthly_egress_gb =
             Round2(RDiv(RMul(RMul(second.value, <<3, 2>>), RInt(1024)),
                         RInt(1073741824)))
        /\ Len(IdentityCalls(fout.egress.calls)) = 2
        /\ SubSeq(fout.egress.calls,
                  Len(fout.egress.calls) - Len(second.calls) + 1,
                  Len(fout.egress.calls)) = second.calls
        /\ first.value = second.value =>
             fout.row.monthly_egress_gb =
               Round2(KBtoGB(RMul(fout.events.value, <<3, 2>>)))

\* 600,000 events in the row, egress of 1.43 GB from the 1,000,000 events
\* of the second estimate
C28_Witness ==
  /\ RowBuilt
  /\ fout.egress.tier = 2
  /\ fout.row.monthly_events = 600000
  /\ fout.egress.events.value = RInt(1000000)
  /\ fout.row.monthly_egress_gb = <<143, 100>>

(***************************************************************************)
(* C29  The region list used for an account is never empty: without        *)
(* --all-regions it is the list of the command line or us-east-1 alone;    *)
(* with --all-regions it is not empty either, also when describe_regions   *)
(* succeeds with no region or with only not-opted-in regions.              *)
(***************************************************************************)
C29_RegionsNeverEmpty ==
  (fpc = "return" /\ fin.fn = "account_regions" /\ ~fout.raised) =>
    /\ fout.regions # <<>>
    /\ ~fin.all_regions => fout.regions = ExplicitOrDefault(fin.regions_arg)

(***************************************************************************)
(* C30  A task that ends with an exception does not reach the other tasks  *)
(* or run(): the rows it had appended stay in the results, every task that *)
(* ran to its end has all its rows there, the exception is not raised in   *)
(* run(), and run() goes on to the aggregation once all tasks have ended.  *)
(***************************************************************************)
C30_TaskIsolation ==
  /\ \A t \in 1..Len(tasks) :
       /\ tasks[t].pc = "failed" =>
            /\ mainpc \in {"pool", "aggregate", "done", "crashed"}
            /\ mainpc = "crashed" => report.written
            /\ RegionsOfRows(tasks[t].account.id) =
                 SubSeq(tasks[t].account_regions, 1, tasks[t].k)
       /\ tasks[t].pc = "done" =>
            RegionsOfRows(tasks[t].account.id) = tasks[t].account_regions
  /\ (mainpc = "pool" /\ \A t \in 1..Len(tasks) : Finished(t)) => ENABLED Join

\* the aggregation starts after a task failed in its second region, with
\* its first row and the two rows of the other account in the results
C30_Witness ==
  /\ mainpc = "aggregate"
  /\ Len(tasks) = 2
  /\ \E t, u \in 1..2 :
       /\ tasks[t].pc = "failed" /\ tasks[t].k = 1
       /\ Len(tasks[t].account_regions) = 2
       /\ tasks[u].pc = "done" /\ tasks[u].k = 2
  /\ Len(results) = 3

InventoryReturned ==
  fpc = "return" /\ fin.fn = "estimate_ec2_instances" /\ ~fout.raised

(***************************************************************************)
(* C32  Every compute inventory has total = linux + windows + other with   *)
(* no count below 0; a measured inventory counts every instance as Linux   *)
(* or as Windows, so other = 0 and total = linux + windows; other > 0 only *)
(* in the fixed default of 20 / 14 / 5 / 1.                                *)
(***************************************************************************)
C32_CountsAddUp ==
  InventoryReturned =>
    /\ fout.total = fout.linux + fout.windows + fout.other
    /\ fout.total >= 0 /\ fout.linux >= 0 /\ fout.windows >= 0 /\ fout.other >= 0
    /\ (fin.with_snapshot /\ fout.sessions = <<"assumed">> /\ ~fin.o.list.err) =>
         /\ fout.other = 0
         /\ fout.total = fout.linux + fout.windows
         /\ fout.total = Len(fin.o.list.instances)
    /\ fout.other > 0 =>
         /\ <<fout.total, fout.linux, fout.windows, fout.other>> = <<20, 14, 5, 1>>
         /\ fout.sessions = <<"none">> \/ fin.o.list.err

\* a measured inventory of three instances, Windows and Linux both present
C32_Witness ==
  /\ InventoryReturned
  /\ fin.with_snapshot
  /\ fout.sessions = <<"assumed">>
  /\ ~fin.o.list.err
  /\ fout.total = 3
  /\ fout.linux = 1
  /\ fout.windows = 2
  /\ fout.other = 0


(***************************************************************************)
(* C31  Termination: when every external call returns and the workers are  *)
(* scheduled fairly, once run() has handed the accounts to the pool every  *)
(* task finishes (done or failed) and run() reaches aggregation.  The work *)
(* of a step is bounded whatever the services answer: a credential         *)
(* resolution makes at most three assume_role attempts, a waterfall asks   *)
(* each of its sources at most once, the egress estimate asks for          *)
(* BytesDelivered once even when it falls back to the event estimate, and  *)
(* region probing asks each region of the catalog once, in order.          *)
(***************************************************************************)
NoRepeat(s) == \A i, j \in 1..Len(s) : s[i] = s[j] => i = j

\* the assume_role calls of one resolution follow each other in the trace
AtMostThreeAttempts(calls) ==
  \A i \in 1..Len(calls) :
    ~(i + 3 <= Len(calls) /\ \A j \in i..(i + 3) : IsAssume(calls[j]))

BoundedRegions(t, o) ==
  LET r == get_enabled_regions_for_account(tasks[t].account.id, o, regions,
                                           all_available_regions)
  IN  /\ AtMostThreeAttempts(r.calls)
      /\ Len(AssumeAttempts(r.calls)) <= 3
      /\ ProbeNames(r.calls) \in {<<>>, all_available_regions}
      /\ NoRepeat(ProbeNames(r.calls))

BoundedMeasure(t, o) ==
  LET r == calculate_costs_region(tasks[t].account,
                                  tasks[t].account_regions[tasks[t].k + 1], o,
                                  include_dspm, include_snapshot)
  IN  /\ AtMostThreeAttempts(r.calls)
      /\ NoRepeat(SourceNames(r.events.calls))
      /\ NoRepeat(SourceNames(r.egress.calls))

\* answers that take the two waterfalls through every tier
DeepMetrics ==
  {MetricRaises, [err |-> FALSE, points |-> <<>>],
   [err |-> FALSE, points |-> <<20000>>]}

DeepEventsOracles ==
  [sess : RowSessions, t1 : DeepMetrics, t2 : DeepMetrics,
   ec2 : {x \in InstanceAnswers : Len(x.reservations) < 2},
   users : {[err |-> FALSE, n |-> 0]}, roles : {[err |-> FALSE, n |-> 0]}]

DeepEgressOracles ==
  [sess : RowSessions, t1 : DeepMetrics,
   events : {x \in DeepEventsOracles : x.ec2.err}]

BoundedEvents(t, o) ==
  LET region == tasks[t].account_regions[tasks[t].k + 1]
      r == estimate_cloudtrail_events(tasks[t].account.id, region, o)
  IN  /\ AtMostThreeAttempts(r.calls)
      /\ NoRepeat(SourceNames(r.calls))

BoundedEgress(t, o) ==
  LET region == tasks[t].account_regions[tasks[t].k + 1]
      r == estimate_data_transfer(tasks[t].account.id, region, o)
  IN  /\ AtMostThreeAttempts(r.calls)
      /\ NoRepeat(SourceNames(r.calls))
      /\ Len(SelectSeq(SourceNames(r.calls),
                       LAMBDA n : n = "BytesDelivered")) <= 1

BoundedWork ==
  \A t \in 1..Len(tasks) :
    /\ tasks[t].pc = "regions" => \A o \in RegionOracles : BoundedRegions(t, o)
    /\ tasks[t].pc = "measure" =>
         /\ \A o \in MainRowOracles : BoundedMeasure(t, o)
         /\ \A o \in DeepEventsOracles : BoundedEvents(t, o)
         /\ \A o \in DeepEgressOracles : BoundedEgress(t, o)

C31_Terminates ==
  /\ []BoundedWork
  /\ \A t \in 1..MaxAccounts :
       (mainpc = "pool" /\ t \in 1..Len(tasks)) ~> (t \in 1..Len(tasks) /\ Finished(t))
  /\ (mainpc = "pool") ~> (mainpc = "aggregate")

C31_Witness ==
  /\ mainpc = "aggregate"
  /\ include_all_regions
  /\ Len(tasks) = 2
  /\ tasks[1].pc = "done" /\ tasks[1].k = 2
  /\ tasks[2].pc = "failed"

====
